---------------------------- MODULE Spec2Model ----------------------------
(***************************************************************************)
(* Soul Blazer world: the access-rule engine of worlds/soulblazer/Rules.py *)
(* and the item tables of worlds/soulblazer/Items.py it reads.             *)
(*                                                                         *)
(* A rule chain (RuleData objects linked through `next`) is compiled by    *)
(* get_rule(player) into nested closures; a closure is called with the     *)
(* CollectionState of the fill algorithm, which collects items, discovers  *)
(* reachable spots and may change options between calls.                   *)
(***************************************************************************)
EXTENDS Integers, Sequences, FiniteSets, TLC

VARIABLES
    multiworld,   \* the items, locations and regions that exist in this multiworld
    state,        \* the CollectionState handed to every rule (with the options it reaches)
    rule,         \* the predicate most recently built by get_rule, with its chain and player
    last,         \* return value and evaluator trace of the latest call, None once the state changed
    evaluated_at, \* stones threshold in force when `rule` was last called, -1 if never
    searches,     \* the reachability searches that run side by side, each with its state and predicate
    memo,         \* what the evaluators keep between calls
    Items,        \* the objects importing Items.py creates: the tables' ItemData and the vanilla lists
    world,        \* the world being generated, with the instances and the pool it has made
    previous,     \* options, seed and pool of the world generated before this one
    process_random, \* state of the generator of the random module, which no world seeds
    merged,       \* the category tables handed to a merge, and the table it gave
    sweep         \* the rounds of a caller that re-evaluates every rule until nothing changes

rules_vars == <<multiworld, state, rule, last, evaluated_at>>

search_vars == <<searches, memo>>

items_vars == <<Items, world, previous, process_random>>

merge_vars == <<merged>>

sweep_vars == <<sweep>>

vars == <<multiworld, state, rule, last, evaluated_at, searches, memo,
          Items, world, previous, process_random, merged, sweep>>

-----------------------------------------------------------------------------
(* Bounds of the model *)

MaxHeld == 2
MaxChainLen == 2
MaxStonesCount == 2
MaxSeed == 1
MaxCalls == 1
MaxTableLen == 2

None == [cls |-> "None"]

-----------------------------------------------------------------------------
(* Names: the identifiers Items.py imports (ItemID, LairID and the three    *)
(* ArchipelagoID offsets).  An identifier is a member's place in its        *)
(* enumeration; the offsets keep the three families of codes apart.         *)

Range(s) == {s[k] : k \in 1..Len(s)}

ItemID_members ==
    <<"LIFESWORD", "PSYCHOSWORD", "CRITICALSWORD", "LUCKYBLADE",
      "ZANTETSUSWORD", "SPIRITSWORD", "RECOVERYSWORD", "SOULBLADE",
      "IRONARMOR", "ICEARMOR", "BUBBLEARMOR", "MAGICARMOR",
      "MYSTICARMOR", "LIGHTARMOR", "ELEMENTALARMOR", "SOULARMOR",
      "FLAMEBALL", "LIGHTARROW", "MAGICFLARE", "ROTATOR",
      "SPARKBOMB", "FLAMEPILLAR", "TORNADO", "PHOENIX",
      "EMBLEMA", "EMBLEMB", "EMBLEMC", "EMBLEMD",
      "EMBLEME", "EMBLEMF", "EMBLEMG", "EMBLEMH",
      "REDHOTMIRROR", "REDHOTBALL", "REDHOTSTICK", "BROWNSTONE",
      "GREENSTONE", "BLUESTONE", "SILVERSTONE", "PURPLESTONE",
      "BLACKSTONE", "GOATSFOOD", "HARPSTRING", "APASS",
      "DREAMROD", "LEOSBRUSH", "TURBOSLEAVES", "MOLESRIBBON",
      "BIGPEARL", "MERMAIDSTEARS", "MUSHROOMSHOES", "AIRSHIPKEY",
      "THUNDERRING", "DELICIOUSSEEDS", "ACTINIDIALEAVES", "DOORKEY",
      "PLATINUMCARD", "VIPCARD", "POWERBRACELET", "SHIELDBRACELET",
      "SUPERBRACELET", "MEDICALHERB", "STRANGEBOTTLE", "MAGICBELL",
      "NOTHING", "GEMS", "EXP", "LAIR_RELEASE",
      "SOUL", "VICTORY">>

LairID_members ==
    <<"OLD_WOMAN", "TOOL_SHOP_OWNER", "TULIP",
      "BRIDGE_GUARD", "VILLAGE_CHIEF", "IVY_CHEST_ROOM",
      "WATER_MILL", "GOAT_HERB", "LISA",
      "TULIP2", "ARCHITECT", "IVY",
      "GOAT", "TEDDY", "TULIP3",
      "LEOS_HOUSE", "LONELY_GOAT", "TULIP_PASS",
      "BOY_CABIN", "BOY_CAVE", "OLD_MAN",
      "OLD_MAN2", "IVY2", "IVY_EMBLEM_A",
      "IVY_RECOVERY_SWORD", "TULIP4", "GOAT2",
      "BIRD_RED_HOT_MIRROR", "BIRD", "DOG",
      "DOG2", "DOG3", "MOLE_SHIELD_BRACELET",
      "SQUIRREL_EMBLEM_C", "SQUIRREL_PSYCHO_SWORD", "BIRD2",
      "MOLE_SOUL_OF_LIGHT", "DEER", "CROCODILE",
      "SQUIRREL", "GREENWOODS_GUARDIAN", "MOLE",
      "DOG4", "SQUIRREL_ICE_ARMOR", "SQUIRREL2",
      "DOG5", "CROCODILE2", "MOLE2",
      "SQUIRREL3", "BIRD_GREENWOOD_LEAF", "MOLE3",
      "DEER_MAGIC_BELL", "BIRD3", "CROCODILE3",
      "MONMO", "DOLPHIN", "ANGELFISH",
      "MERMAID", "ANGELFISH2", "MERMAID_PEARL",
      "MERMAID2", "DOLPHIN_SAVES_LUE", "MERMAID_STATUE_BLESTER",
      "MERMAID_RED_HOT_STICK", "LUE", "MERMAID3",
      "MERMAID_NANA", "MERMAID4", "DOLPHIN2",
      "MERMAID_STATUE_ROCKBIRD", "MERMAID_BUBBLE_ARMOR", "MERMAID5",
      "MERMAID6", "MERMAID_TEARS", "MERMAID_STATUE_DUREAN",
      "ANGELFISH3", "ANGELFISH_SOUL_OF_SHIELD", "MERMAID_MAGIC_FLARE",
      "MERMAID_QUEEN", "MERMAID_STATUE_GHOST_SHIP", "DOLPHIN_SECRET_CAVE",
      "MERMAID7", "ANGELFISH4", "MERMAID8",
      "DOLPHIN_PEARL", "MERMAID9", "GRANDPA",
      "GIRL", "MUSHROOM", "BOY",
      "GRANDPA2", "SNAIL_JOCKEY", "NOME",
      "BOY2", "MUSHROOM_EMBLEM_F", "DANCING_GRANDMA",
      "DANCING_GRANDMA2", "SNAIL_EMBLEM_E", "BOY_MUSHROOM_SHOES",
      "GRANDMA", "GIRL2", "MUSHROOM2",
      "SNAIL_RACER", "SNAIL_RACER2", "GIRL3",
      "MUSHROOM3", "SNAIL", "GRANDPA3",
      "SNAIL2", "GRANDPA4", "GRANDPA_LUNE",
      "GRANDPA5", "MOUNTAIN_KING", "PLANT_HERB",
      "PLANT", "CHEST_OF_DRAWERS_MYSTIC_ARMOR", "CAT",
      "GREAT_DOOR_ZANTETSU_SWORD", "CAT2", "GREAT_DOOR",
      "CAT3", "MODEL_TOWN1", "GREAT_DOOR_MODEL_TOWNS",
      "STEPS_UPSTAIRS", "CAT_DOOR_KEY", "MOUSE",
      "MARIE", "DOLL", "CHEST_OF_DRAWERS",
      "PLANT2", "MOUSE2", "MOUSE_SPARK_BOMB",
      "MOUSE3", "GREAT_DOOR_SOUL_OF_DETECTION", "MODEL_TOWN2",
      "MOUSE4", "STEPS_MARIE", "CHEST_OF_DRAWERS2",
      "PLANT_ACTINIDIA_LEAVES", "MOUSE5", "CAT4",
      "STAIRS_POWER_PLANT", "SOLDIER", "SOLDIER2",
      "SOLDIER3", "SOLDIER_ELEMENTAL_MAIL", "SOLDIER4",
      "SOLDIER5", "SINGER_CONCERT_HALL", "SOLDIER6",
      "MAID", "SOLDIER_LEFT_TOWER", "SOLDIER_DOK",
      "SOLDIER_PLATINUM_CARD", "SINGER", "SOLDIER_SOUL_OF_REALITY",
      "MAID2", "QUEEN_MAGRIDD", "SOLDIER_WITH_LEO",
      "SOLDIER_RIGHT_TOWER", "DR_LEO", "SOLDIER7",
      "SOLDIER8", "MAID_HERB", "SOLDIER_CASTLE",
      "SOLDIER9", "SOLDIER10", "SOLDIER11",
      "KING_MAGRIDD">>

\* The value of each member of an enumeration
enum(members) ==
    [member \in Range(members) |->
        (CHOOSE k \in 1..Len(members) : members[k] = member) - 1]

ItemID_values == enum(ItemID_members)

LairID_values == enum(LairID_members)

ItemID(member) == ItemID_values[member]

LairID(member) == LairID_values[member]

BASE_ID == 100000

LAIR_ID_OFFSET == 1000

SOUL_OFFSET == 500

-----------------------------------------------------------------------------
(* Python dicts and lists.  A dict is the sequence of its <<key, value>>    *)
(* pairs in insertion order.                                                *)

keys(d) == [k \in 1..Len(d) |-> d[k][1]]

contains(d, key) == \E k \in 1..Len(d) : d[k][1] = key

getitem(d, key) == d[CHOOSE k \in 1..Len(d) : d[k][1] = key][2]

\* {k1: v1, **table, ...}: the display's pairs are set one after the other;
\* a key set again keeps its place and takes the later value
dict(pairs) ==
    LET n         == Len(pairs)
        first(k)  == \A j \in 1..(k - 1) : pairs[j][1] # pairs[k][1]
        latest(k) == \A j \in (k + 1)..n : pairs[j][1] # pairs[k][1]
        places    == SelectSeq([k \in 1..n |-> k], first)
    IN  [i \in 1..Len(places) |->
            LET key == pairs[places[i]][1]
            IN  <<key, pairs[CHOOSE k \in 1..n : pairs[k][1] = key /\ latest(k)][2]>>]

-----------------------------------------------------------------------------
(* Items.py: ItemData and the item tables                                   *)

ItemData(id, operand, classification) ==
    [id |-> id, operand |-> operand, classification |-> classification]

swords_table ==
    dict(<<<<"LIFESWORD", ItemData(ItemID("LIFESWORD"), 0, "progression")>>,
           <<"PSYCHOSWORD", ItemData(ItemID("PSYCHOSWORD"), 0, "progression")>>,
           <<"CRITICALSWORD", ItemData(ItemID("CRITICALSWORD"), 0, "progression")>>,
           <<"LUCKYBLADE", ItemData(ItemID("LUCKYBLADE"), 0, "progression")>>,
           <<"ZANTETSUSWORD", ItemData(ItemID("ZANTETSUSWORD"), 0, "progression")>>,
           <<"SPIRITSWORD", ItemData(ItemID("SPIRITSWORD"), 0, "progression")>>,
           <<"RECOVERYSWORD", ItemData(ItemID("RECOVERYSWORD"), 0, "progression")>>,
           <<"SOULBLADE", ItemData(ItemID("SOULBLADE"), 0, "progression")>>>>)

armors_table ==
    dict(<<<<"IRONARMOR", ItemData(ItemID("IRONARMOR"), 0, "useful")>>,
           <<"ICEARMOR", ItemData(ItemID("ICEARMOR"), 0, "progression")>>,
           <<"BUBBLEARMOR", ItemData(ItemID("BUBBLEARMOR"), 0, "progression")>>,
           <<"MAGICARMOR", ItemData(ItemID("MAGICARMOR"), 0, "useful")>>,
           <<"MYSTICARMOR", ItemData(ItemID("MYSTICARMOR"), 0, "useful")>>,
           <<"LIGHTARMOR", ItemData(ItemID("LIGHTARMOR"), 0, "useful")>>,
           <<"ELEMENTALARMOR", ItemData(ItemID("ELEMENTALARMOR"), 0, "useful")>>,
           <<"SOULARMOR", ItemData(ItemID("SOULARMOR"), 0, "progression")>>>>)

castable_magic_table ==
    dict(<<<<"FLAMEBALL", ItemData(ItemID("FLAMEBALL"), 0, "progression")>>,
           <<"LIGHTARROW", ItemData(ItemID("LIGHTARROW"), 0, "progression")>>,
           <<"MAGICFLARE", ItemData(ItemID("MAGICFLARE"), 0, "progression")>>,
           <<"ROTATOR", ItemData(ItemID("ROTATOR"), 0, "progression")>>,
           <<"SPARKBOMB", ItemData(ItemID("SPARKBOMB"), 0, "progression")>>,
           <<"FLAMEPILLAR", ItemData(ItemID("FLAMEPILLAR"), 0, "progression")>>,
           <<"TORNADO", ItemData(ItemID("TORNADO"), 0, "progression")>>>>)

magic_table ==
    dict(castable_magic_table
         \o <<<<"PHOENIX", ItemData(ItemID("PHOENIX"), 0, "progression")>>>>)

emblems_table ==
    dict(<<<<"EMBLEMA", ItemData(ItemID("EMBLEMA"), 0, "progression")>>,
           <<"EMBLEMB", ItemData(ItemID("EMBLEMB"), 0, "progression")>>,
           <<"EMBLEMC", ItemData(ItemID("EMBLEMC"), 0, "progression")>>,
           <<"EMBLEMD", ItemData(ItemID("EMBLEMD"), 0, "progression")>>,
           <<"EMBLEME", ItemData(ItemID("EMBLEME"), 0, "progression")>>,
           <<"EMBLEMF", ItemData(ItemID("EMBLEMF"), 0, "progression")>>,
           <<"EMBLEMG", ItemData(ItemID("EMBLEMG"), 0, "progression")>>,
           <<"EMBLEMH", ItemData(ItemID("EMBLEMH"), 0, "progression")>>>>)

redhots_table ==
    dict(<<<<"REDHOTMIRROR", ItemData(ItemID("REDHOTMIRROR"), 0, "progression")>>,
           <<"REDHOTBALL", ItemData(ItemID("REDHOTBALL"), 0, "progression")>>,
           <<"REDHOTSTICK", ItemData(ItemID("REDHOTSTICK"), 0, "progression")>>>>)

stones_table ==
    dict(<<<<"BROWNSTONE", ItemData(ItemID("BROWNSTONE"), 0, "progression")>>,
           <<"GREENSTONE", ItemData(ItemID("GREENSTONE"), 0, "progression")>>,
           <<"BLUESTONE", ItemData(ItemID("BLUESTONE"), 0, "progression")>>,
           <<"SILVERSTONE", ItemData(ItemID("SILVERSTONE"), 0, "progression")>>,
           <<"PURPLESTONE", ItemData(ItemID("PURPLESTONE"), 0, "progression")>>,
           <<"BLACKSTONE", ItemData(ItemID("BLACKSTONE"), 0, "progression")>>>>)

inventory_items_table ==
    dict(<<<<"GOATSFOOD", ItemData(ItemID("GOATSFOOD"), 0, "useful")>>,
           <<"HARPSTRING", ItemData(ItemID("HARPSTRING"), 0, "progression")>>,
           <<"APASS", ItemData(ItemID("APASS"), 0, "progression")>>,
           <<"DREAMROD", ItemData(ItemID("DREAMROD"), 0, "progression")>>,
           <<"LEOSBRUSH", ItemData(ItemID("LEOSBRUSH"), 0, "progression")>>,
           <<"TURBOSLEAVES", ItemData(ItemID("TURBOSLEAVES"), 0, "progression")>>,
           <<"MOLESRIBBON", ItemData(ItemID("MOLESRIBBON"), 0, "progression")>>,
           <<"BIGPEARL", ItemData(ItemID("BIGPEARL"), 0, "progression")>>,
           <<"MERMAIDSTEARS", ItemData(ItemID("MERMAIDSTEARS"), 0, "progression")>>,
           <<"MUSHROOMSHOES", ItemData(ItemID("MUSHROOMSHOES"), 0, "progression")>>,
           <<"AIRSHIPKEY", ItemData(ItemID("AIRSHIPKEY"), 0, "progression")>>,
           <<"THUNDERRING", ItemData(ItemID("THUNDERRING"), 0, "progression")>>,
           <<"DELICIOUSSEEDS", ItemData(ItemID("DELICIOUSSEEDS"), 0, "progression")>>,
           <<"ACTINIDIALEAVES", ItemData(ItemID("ACTINIDIALEAVES"), 0, "progression")>>,
           <<"DOORKEY", ItemData(ItemID("DOORKEY"), 0, "progression")>>,
           <<"PLATINUMCARD", ItemData(ItemID("PLATINUMCARD"), 0, "progression")>>,
           <<"VIPCARD", ItemData(ItemID("VIPCARD"), 0, "progression")>>>>
         \o emblems_table
         \o redhots_table
         \o <<<<"POWERBRACELET", ItemData(ItemID("POWERBRACELET"), 0, "useful")>>,
           <<"SHIELDBRACELET", ItemData(ItemID("SHIELDBRACELET"), 0, "useful")>>,
           <<"SUPERBRACELET", ItemData(ItemID("SUPERBRACELET"), 0, "useful")>>,
           <<"MEDICALHERB", ItemData(ItemID("MEDICALHERB"), 0, "filler")>>,
           <<"STRANGEBOTTLE", ItemData(ItemID("STRANGEBOTTLE"), 0, "filler")>>>>
         \o stones_table
         \o <<<<"MAGICBELL", ItemData(ItemID("MAGICBELL"), 0, "useful")>>>>)

misc_table ==
    dict(<<<<"NOTHING", ItemData(ItemID("NOTHING"), 0, "filler")>>,
           <<"GEMS", ItemData(ItemID("GEMS"), 100, "filler")>>,
           <<"EXP", ItemData(ItemID("EXP"), 250, "filler")>>>>)

repeatable_items_table ==
    dict(<<<<"MEDICALHERB", getitem(inventory_items_table, "MEDICALHERB")>>,
           <<"STRANGEBOTTLE", getitem(inventory_items_table, "STRANGEBOTTLE")>>>>
         \o misc_table)

items_table ==
    dict(swords_table
         \o armors_table
         \o magic_table
         \o inventory_items_table)

npc_release_table ==
    dict(<<<<"NPC_OLD_WOMAN", ItemData(ItemID("LAIR_RELEASE"), LairID("OLD_WOMAN"), "progression")>>,
           <<"NPC_TOOL_SHOP_OWNER", ItemData(ItemID("LAIR_RELEASE"), LairID("TOOL_SHOP_OWNER"), "progression")>>,
           <<"NPC_TULIP", ItemData(ItemID("LAIR_RELEASE"), LairID("TULIP"), "filler")>>,
           <<"NPC_BRIDGE_GUARD", ItemData(ItemID("LAIR_RELEASE"), LairID("BRIDGE_GUARD"), "progression")>>,
           <<"NPC_VILLAGE_CHIEF", ItemData(ItemID("LAIR_RELEASE"), LairID("VILLAGE_CHIEF"), "progression")>>,
           <<"NPC_IVY_CHEST_ROOM", ItemData(ItemID("LAIR_RELEASE"), LairID("IVY_CHEST_ROOM"), "progression")>>,
           <<"NPC_WATER_MILL", ItemData(ItemID("LAIR_RELEASE"), LairID("WATER_MILL"), "progression")>>,
           <<"NPC_GOAT_HERB", ItemData(ItemID("LAIR_RELEASE"), LairID("GOAT_HERB"), "progression")>>,
           <<"NPC_LISA", ItemData(ItemID("LAIR_RELEASE"), LairID("LISA"), "progression")>>,
           <<"NPC_TULIP2", ItemData(ItemID("LAIR_RELEASE"), LairID("TULIP2"), "filler")>>,
           <<"NPC_ARCHITECT", ItemData(ItemID("LAIR_RELEASE"), LairID("ARCHITECT"), "progression")>>,
           <<"NPC_IVY", ItemData(ItemID("LAIR_RELEASE"), LairID("IVY"), "progression")>>,
           <<"NPC_GOAT", ItemData(ItemID("LAIR_RELEASE"), LairID("GOAT"), "progression")>>,
           <<"NPC_TEDDY", ItemData(ItemID("LAIR_RELEASE"), LairID("TEDDY"), "progression")>>,
           <<"NPC_TULIP3", ItemData(ItemID("LAIR_RELEASE"), LairID("TULIP3"), "filler")>>,
           <<"NPC_LEOS_HOUSE", ItemData(ItemID("LAIR_RELEASE"), LairID("LEOS_HOUSE"), "progression")>>,
           <<"NPC_LONELY_GOAT", ItemData(ItemID("LAIR_RELEASE"), LairID("LONELY_GOAT"), "filler")>>,
           <<"NPC_TULIP_PASS", ItemData(ItemID("LAIR_RELEASE"), LairID("TULIP_PASS"), "progression")>>,
           <<"NPC_BOY_CABIN", ItemData(ItemID("LAIR_RELEASE"), LairID("BOY_CABIN"), "filler")>>,
           <<"NPC_BOY_CAVE", ItemData(ItemID("LAIR_RELEASE"), LairID("BOY_CAVE"), "progression")>>,
           <<"NPC_OLD_MAN", ItemData(ItemID("LAIR_RELEASE"), LairID("OLD_MAN"), "filler")>>,
           <<"NPC_OLD_MAN2", ItemData(ItemID("LAIR_RELEASE"), LairID("OLD_MAN2"), "filler")>>,
           <<"NPC_IVY2", ItemData(ItemID("LAIR_RELEASE"), LairID("IVY2"), "filler")>>,
           <<"NPC_IVY_EMBLEM_A", ItemData(ItemID("LAIR_RELEASE"), LairID("IVY_EMBLEM_A"), "progression")>>,
           <<"NPC_IVY_RECOVERY_SWORD", ItemData(ItemID("LAIR_RELEASE"), LairID("IVY_RECOVERY_SWORD"), "progression")>>,
           <<"NPC_TULIP4", ItemData(ItemID("LAIR_RELEASE"), LairID("TULIP4"), "filler")>>,
           <<"NPC_GOAT2", ItemData(ItemID("LAIR_RELEASE"), LairID("GOAT2"), "filler")>>,
           <<"NPC_BIRD_RED_HOT_MIRROR", ItemData(ItemID("LAIR_RELEASE"), LairID("BIRD_RED_HOT_MIRROR"), "progression")>>,
           <<"NPC_BIRD", ItemData(ItemID("LAIR_RELEASE"), LairID("BIRD"), "filler")>>,
           <<"NPC_DOG", ItemData(ItemID("LAIR_RELEASE"), LairID("DOG"), "filler")>>,
           <<"NPC_DOG2", ItemData(ItemID("LAIR_RELEASE"), LairID("DOG2"), "filler")>>,
           <<"NPC_DOG3", ItemData(ItemID("LAIR_RELEASE"), LairID("DOG3"), "progression")>>,
           <<"NPC_MOLE_SHIELD_BRACELET", ItemData(ItemID("LAIR_RELEASE"), LairID("MOLE_SHIELD_BRACELET"), "progression")>>,
           <<"NPC_SQUIRREL_EMBLEM_C", ItemData(ItemID("LAIR_RELEASE"), LairID("SQUIRREL_EMBLEM_C"), "progression")>>,
           <<"NPC_SQUIRREL_PSYCHO_SWORD", ItemData(ItemID("LAIR_RELEASE"), LairID("SQUIRREL_PSYCHO_SWORD"), "progression")>>,
           <<"NPC_BIRD2", ItemData(ItemID("LAIR_RELEASE"), LairID("BIRD2"), "filler")>>,
           <<"NPC_MOLE_SOUL_OF_LIGHT", ItemData(ItemID("LAIR_RELEASE"), LairID("MOLE_SOUL_OF_LIGHT"), "progression")>>,
           <<"NPC_DEER", ItemData(ItemID("LAIR_RELEASE"), LairID("DEER"), "progression")>>,
           <<"NPC_CROCODILE", ItemData(ItemID("LAIR_RELEASE"), LairID("CROCODILE"), "progression")>>,
           <<"NPC_SQUIRREL", ItemData(ItemID("LAIR_RELEASE"), LairID("SQUIRREL"), "filler")>>,
           <<"NPC_GREENWOODS_GUARDIAN", ItemData(ItemID("LAIR_RELEASE"), LairID("GREENWOODS_GUARDIAN"), "progression")>>,
           <<"NPC_MOLE", ItemData(ItemID("LAIR_RELEASE"), LairID("MOLE"), "progression")>>,
           <<"NPC_DOG4", ItemData(ItemID("LAIR_RELEASE"), LairID("DOG4"), "filler")>>,
           <<"NPC_SQUIRREL_ICE_ARMOR", ItemData(ItemID("LAIR_RELEASE"), LairID("SQUIRREL_ICE_ARMOR"), "progression")>>,
           <<"NPC_SQUIRREL2", ItemData(ItemID("LAIR_RELEASE"), LairID("SQUIRREL2"), "filler")>>,
           <<"NPC_DOG5", ItemData(ItemID("LAIR_RELEASE"), LairID("DOG5"), "filler")>>,
           <<"NPC_CROCODILE2", ItemData(ItemID("LAIR_RELEASE"), LairID("CROCODILE2"), "progression")>>,
           <<"NPC_MOLE2", ItemData(ItemID("LAIR_RELEASE"), LairID("MOLE2"), "filler")>>,
           <<"NPC_SQUIRREL3", ItemData(ItemID("LAIR_RELEASE"), LairID("SQUIRREL3"), "progression")>>,
           <<"NPC_BIRD_GREENWOOD_LEAF", ItemData(ItemID("LAIR_RELEASE"), LairID("BIRD_GREENWOOD_LEAF"), "progression")>>,
           <<"NPC_MOLE3", ItemData(ItemID("LAIR_RELEASE"), LairID("MOLE3"), "progression")>>,
           <<"NPC_DEER_MAGIC_BELL", ItemData(ItemID("LAIR_RELEASE"), LairID("DEER_MAGIC_BELL"), "progression")>>,
           <<"NPC_BIRD3", ItemData(ItemID("LAIR_RELEASE"), LairID("BIRD3"), "filler")>>,
           <<"NPC_CROCODILE3", ItemData(ItemID("LAIR_RELEASE"), LairID("CROCODILE3"), "progression")>>,
           <<"NPC_MONMO", ItemData(ItemID("LAIR_RELEASE"), LairID("MONMO"), "progression")>>,
           <<"NPC_DOLPHIN", ItemData(ItemID("LAIR_RELEASE"), LairID("DOLPHIN"), "filler")>>,
           <<"NPC_ANGELFISH", ItemData(ItemID("LAIR_RELEASE"), LairID("ANGELFISH"), "filler")>>,
           <<"NPC_MERMAID", ItemData(ItemID("LAIR_RELEASE"), LairID("MERMAID"), "progression")>>,
           <<"NPC_ANGELFISH2", ItemData(ItemID("LAIR_RELEASE"), LairID("ANGELFISH2"), "filler")>>,
           <<"NPC_MERMAID_PEARL", ItemData(ItemID("LAIR_RELEASE"), LairID("MERMAID_PEARL"), "progression")>>,
           <<"NPC_MERMAID2", ItemData(ItemID("LAIR_RELEASE"), LairID("MERMAID2"), "filler")>>,
           <<"NPC_DOLPHIN_SAVES_LUE", ItemData(ItemID("LAIR_RELEASE"), LairID("DOLPHIN_SAVES_LUE"), "progression")>>,
           <<"NPC_MERMAID_STATUE_BLESTER", ItemData(ItemID("LAIR_RELEASE"), LairID("MERMAID_STATUE_BLESTER"), "progression")>>,
           <<"NPC_MERMAID_RED_HOT_STICK", ItemData(ItemID("LAIR_RELEASE"), LairID("MERMAID_RED_HOT_STICK"), "progression")>>,
           <<"NPC_LUE", ItemData(ItemID("LAIR_RELEASE"), LairID("LUE"), "progression")>>,
           <<"NPC_MERMAID3", ItemData(ItemID("LAIR_RELEASE"), LairID("MERMAID3"), "filler")>>,
           <<"NPC_MERMAID_NANA", ItemData(ItemID("LAIR_RELEASE"), LairID("MERMAID_NANA"), "filler")>>,
           <<"NPC_MERMAID4", ItemData(ItemID("LAIR_RELEASE"), LairID("MERMAID4"), "filler")>>,
           <<"NPC_DOLPHIN2", ItemData(ItemID("LAIR_RELEASE"), LairID("DOLPHIN2"), "progression")>>,
           <<"NPC_MERMAID_STATUE_ROCKBIRD", ItemData(ItemID("LAIR_RELEASE"), LairID("MERMAID_STATUE_ROCKBIRD"), "progression")>>,
           <<"NPC_MERMAID_BUBBLE_ARMOR", ItemData(ItemID("LAIR_RELEASE"), LairID("MERMAID_BUBBLE_ARMOR"), "progression")>>,
           <<"NPC_MERMAID5", ItemData(ItemID("LAIR_RELEASE"), LairID("MERMAID5"), "filler")>>,
           <<"NPC_MERMAID6", ItemData(ItemID("LAIR_RELEASE"), LairID("MERMAID6"), "filler")>>,
           <<"NPC_MERMAID_TEARS", ItemData(ItemID("LAIR_RELEASE"), LairID("MERMAID_TEARS"), "filler")>>,
           <<"NPC_MERMAID_STATUE_DUREAN", ItemData(ItemID("LAIR_RELEASE"), LairID("MERMAID_STATUE_DUREAN"), "progression")>>,
           <<"NPC_ANGELFISH3", ItemData(ItemID("LAIR_RELEASE"), LairID("ANGELFISH3"), "filler")>>,
           <<"NPC_ANGELFISH_SOUL_OF_SHIELD", ItemData(ItemID("LAIR_RELEASE"), LairID("ANGELFISH_SOUL_OF_SHIELD"), "progression")>>,
           <<"NPC_MERMAID_MAGIC_FLARE", ItemData(ItemID("LAIR_RELEASE"), LairID("MERMAID_MAGIC_FLARE"), "progression")>>,
           <<"NPC_MERMAID_QUEEN", ItemData(ItemID("LAIR_RELEASE"), LairID("MERMAID_QUEEN"), "progression")>>,
           <<"NPC_MERMAID_STATUE_GHOST_SHIP", ItemData(ItemID("LAIR_RELEASE"), LairID("MERMAID_STATUE_GHOST_SHIP"), "progression")>>,
           <<"NPC_DOLPHIN_SECRET_CAVE", ItemData(ItemID("LAIR_RELEASE"), LairID("DOLPHIN_SECRET_CAVE"), "progression")>>,
           <<"NPC_MERMAID7", ItemData(ItemID("LAIR_RELEASE"), LairID("MERMAID7"), "filler")>>,
           <<"NPC_ANGELFISH4", ItemData(ItemID("LAIR_RELEASE"), LairID("ANGELFISH4"), "filler")>>,
           <<"NPC_MERMAID8", ItemData(ItemID("LAIR_RELEASE"), LairID("MERMAID8"), "filler")>>,
           <<"NPC_DOLPHIN_PEARL", ItemData(ItemID("LAIR_RELEASE"), LairID("DOLPHIN_PEARL"), "progression")>>,
           <<"NPC_MERMAID9", ItemData(ItemID("LAIR_RELEASE"), LairID("MERMAID9"), "filler")>>,
           <<"NPC_GRANDPA", ItemData(ItemID("LAIR_RELEASE"), LairID("GRANDPA"), "progression")>>,
           <<"NPC_GIRL", ItemData(ItemID("LAIR_RELEASE"), LairID("GIRL"), "filler")>>,
           <<"NPC_MUSHROOM", ItemData(ItemID("LAIR_RELEASE"), LairID("MUSHROOM"), "filler")>>,
           <<"NPC_BOY", ItemData(ItemID("LAIR_RELEASE"), LairID("BOY"), "progression")>>,
           <<"NPC_GRANDPA2", ItemData(ItemID("LAIR_RELEASE"), LairID("GRANDPA2"), "filler")>>,
           <<"NPC_SNAIL_JOCKEY", ItemData(ItemID("LAIR_RELEASE"), LairID("SNAIL_JOCKEY"), "filler")>>,
           <<"NPC_NOME", ItemData(ItemID("LAIR_RELEASE"), LairID("NOME"), "progression")>>,
           <<"NPC_BOY2", ItemData(ItemID("LAIR_RELEASE"), LairID("BOY2"), "filler")>>,
           <<"NPC_MUSHROOM_EMBLEM_F", ItemData(ItemID("LAIR_RELEASE"), LairID("MUSHROOM_EMBLEM_F"), "progression")>>,
           <<"NPC_DANCING_GRANDMA", ItemData(ItemID("LAIR_RELEASE"), LairID("DANCING_GRANDMA"), "progression")>>,
           <<"NPC_DANCING_GRANDMA2", ItemData(ItemID("LAIR_RELEASE"), LairID("DANCING_GRANDMA2"), "progression")>>,
           <<"NPC_SNAIL_EMBLEM_E", ItemData(ItemID("LAIR_RELEASE"), LairID("SNAIL_EMBLEM_E"), "progression")>>,
           <<"NPC_BOY_MUSHROOM_SHOES", ItemData(ItemID("LAIR_RELEASE"), LairID("BOY_MUSHROOM_SHOES"), "progression")>>,
           <<"NPC_GRANDMA", ItemData(ItemID("LAIR_RELEASE"), LairID("GRANDMA"), "filler")>>,
           <<"NPC_GIRL2", ItemData(ItemID("LAIR_RELEASE"), LairID("GIRL2"), "filler")>>,
           <<"NPC_MUSHROOM2", ItemData(ItemID("LAIR_RELEASE"), LairID("MUSHROOM2"), "progression")>>,
           <<"NPC_SNAIL_RACER", ItemData(ItemID("LAIR_RELEASE"), LairID("SNAIL_RACER"), "filler")>>,
           <<"NPC_SNAIL_RACER2", ItemData(ItemID("LAIR_RELEASE"), LairID("SNAIL_RACER2"), "filler")>>,
           <<"NPC_GIRL3", ItemData(ItemID("LAIR_RELEASE"), LairID("GIRL3"), "progression")>>,
           <<"NPC_MUSHROOM3", ItemData(ItemID("LAIR_RELEASE"), LairID("MUSHROOM3"), "filler")>>,
           <<"NPC_SNAIL", ItemData(ItemID("LAIR_RELEASE"), LairID("SNAIL"), "filler")>>,
           <<"NPC_GRANDPA3", ItemData(ItemID("LAIR_RELEASE"), LairID("GRANDPA3"), "progression")>>,
           <<"NPC_SNAIL2", ItemData(ItemID("LAIR_RELEASE"), LairID("SNAIL2"), "filler")>>,
           <<"NPC_GRANDPA4", ItemData(ItemID("LAIR_RELEASE"), LairID("GRANDPA4"), "progression")>>,
           <<"NPC_GRANDPA_LUNE", ItemData(ItemID("LAIR_RELEASE"), LairID("GRANDPA_LUNE"), "progression")>>,
           <<"NPC_GRANDPA5", ItemData(ItemID("LAIR_RELEASE"), LairID("GRANDPA5"), "progression")>>,
           <<"NPC_MOUNTAIN_KING", ItemData(ItemID("LAIR_RELEASE"), LairID("MOUNTAIN_KING"), "progression")>>,
           <<"NPC_PLANT_HERB", ItemData(ItemID("LAIR_RELEASE"), LairID("PLANT_HERB"), "progression")>>,
           <<"NPC_PLANT", ItemData(ItemID("LAIR_RELEASE"), LairID("PLANT"), "filler")>>,
           <<"NPC_CHEST_OF_DRAWERS_MYSTIC_ARMOR", ItemData(ItemID("LAIR_RELEASE"), LairID("CHEST_OF_DRAWERS_MYSTIC_ARMOR"), "progression")>>,
           <<"NPC_CAT", ItemData(ItemID("LAIR_RELEASE"), LairID("CAT"), "progression")>>,
           <<"NPC_GREAT_DOOR_ZANTETSU_SWORD", ItemData(ItemID("LAIR_RELEASE"), LairID("GREAT_DOOR_ZANTETSU_SWORD"), "progression")>>,
           <<"NPC_CAT2", ItemData(ItemID("LAIR_RELEASE"), LairID("CAT2"), "progression")>>,
           <<"NPC_GREAT_DOOR", ItemData(ItemID("LAIR_RELEASE"), LairID("GREAT_DOOR"), "progression")>>,
           <<"NPC_CAT3", ItemData(ItemID("LAIR_RELEASE"), LairID("CAT3"), "filler")>>,
           <<"NPC_MODEL_TOWN1", ItemData(ItemID("LAIR_RELEASE"), LairID("MODEL_TOWN1"), "progression")>>,
           <<"NPC_GREAT_DOOR_MODEL_TOWNS", ItemData(ItemID("LAIR_RELEASE"), LairID("GREAT_DOOR_MODEL_TOWNS"), "progression")>>,
           <<"NPC_STEPS_UPSTAIRS", ItemData(ItemID("LAIR_RELEASE"), LairID("STEPS_UPSTAIRS"), "progression")>>,
           <<"NPC_CAT_DOOR_KEY", ItemData(ItemID("LAIR_RELEASE"), LairID("CAT_DOOR_KEY"), "progression")>>,
           <<"NPC_MOUSE", ItemData(ItemID("LAIR_RELEASE"), LairID("MOUSE"), "progression")>>,
           <<"NPC_MARIE", ItemData(ItemID("LAIR_RELEASE"), LairID("MARIE"), "progression")>>,
           <<"NPC_DOLL", ItemData(ItemID("LAIR_RELEASE"), LairID("DOLL"), "filler")>>,
           <<"NPC_CHEST_OF_DRAWERS", ItemData(ItemID("LAIR_RELEASE"), LairID("CHEST_OF_DRAWERS"), "filler")>>,
           <<"NPC_PLANT2", ItemData(ItemID("LAIR_RELEASE"), LairID("PLANT2"), "filler")>>,
           <<"NPC_MOUSE2", ItemData(ItemID("LAIR_RELEASE"), LairID("MOUSE2"), "filler")>>,
           <<"NPC_MOUSE_SPARK_BOMB", ItemData(ItemID("LAIR_RELEASE"), LairID("MOUSE_SPARK_BOMB"), "progression")>>,
           <<"NPC_MOUSE3", ItemData(ItemID("LAIR_RELEASE"), LairID("MOUSE3"), "filler")>>,
           <<"NPC_GREAT_DOOR_SOUL_OF_DETECTION", ItemData(ItemID("LAIR_RELEASE"), LairID("GREAT_DOOR_SOUL_OF_DETECTION"), "progression")>>,
           <<"NPC_MODEL_TOWN2", ItemData(ItemID("LAIR_RELEASE"), LairID("MODEL_TOWN2"), "progression")>>,
           <<"NPC_MOUSE4", ItemData(ItemID("LAIR_RELEASE"), LairID("MOUSE4"), "filler")>>,
           <<"NPC_STEPS_MARIE", ItemData(ItemID("LAIR_RELEASE"), LairID("STEPS_MARIE"), "progression")>>,
           <<"NPC_CHEST_OF_DRAWERS2", ItemData(ItemID("LAIR_RELEASE"), LairID("CHEST_OF_DRAWERS2"), "progression")>>,
           <<"NPC_PLANT_ACTINIDIA_LEAVES", ItemData(ItemID("LAIR_RELEASE"), LairID("PLANT_ACTINIDIA_LEAVES"), "progression")>>,
           <<"NPC_MOUSE5", ItemData(ItemID("LAIR_RELEASE"), LairID("MOUSE5"), "filler")>>,
           <<"NPC_CAT4", ItemData(ItemID("LAIR_RELEASE"), LairID("CAT4"), "filler")>>,
           <<"NPC_STAIRS_POWER_PLANT", ItemData(ItemID("LAIR_RELEASE"), LairID("STAIRS_POWER_PLANT"), "progression")>>,
           <<"NPC_SOLDIER", ItemData(ItemID("LAIR_RELEASE"), LairID("SOLDIER"), "filler")>>,
           <<"NPC_SOLDIER2", ItemData(ItemID("LAIR_RELEASE"), LairID("SOLDIER2"), "filler")>>,
           <<"NPC_SOLDIER3", ItemData(ItemID("LAIR_RELEASE"), LairID("SOLDIER3"), "filler")>>,
           <<"NPC_SOLDIER_ELEMENTAL_MAIL", ItemData(ItemID("LAIR_RELEASE"), LairID("SOLDIER_ELEMENTAL_MAIL"), "progression")>>,
           <<"NPC_SOLDIER4", ItemData(ItemID("LAIR_RELEASE"), LairID("SOLDIER4"), "filler")>>,
           <<"NPC_SOLDIER5", ItemData(ItemID("LAIR_RELEASE"), LairID("SOLDIER5"), "filler")>>,
           <<"NPC_SINGER_CONCERT_HALL", ItemData(ItemID("LAIR_RELEASE"), LairID("SINGER_CONCERT_HALL"), "progression")>>,
           <<"NPC_SOLDIER6", ItemData(ItemID("LAIR_RELEASE"), LairID("SOLDIER6"), "filler")>>,
           <<"NPC_MAID", ItemData(ItemID("LAIR_RELEASE"), LairID("MAID"), "filler")>>,
           <<"NPC_SOLDIER_LEFT_TOWER", ItemData(ItemID("LAIR_RELEASE"), LairID("SOLDIER_LEFT_TOWER"), "progression")>>,
           <<"NPC_SOLDIER_DOK", ItemData(ItemID("LAIR_RELEASE"), LairID("SOLDIER_DOK"), "progression")>>,
           <<"NPC_SOLDIER_PLATINUM_CARD", ItemData(ItemID("LAIR_RELEASE"), LairID("SOLDIER_PLATINUM_CARD"), "progression")>>,
           <<"NPC_SINGER", ItemData(ItemID("LAIR_RELEASE"), LairID("SINGER"), "filler")>>,
           <<"NPC_SOLDIER_SOUL_OF_REALITY", ItemData(ItemID("LAIR_RELEASE"), LairID("SOLDIER_SOUL_OF_REALITY"), "progression")>>,
           <<"NPC_MAID2", ItemData(ItemID("LAIR_RELEASE"), LairID("MAID2"), "filler")>>,
           <<"NPC_QUEEN_MAGRIDD", ItemData(ItemID("LAIR_RELEASE"), LairID("QUEEN_MAGRIDD"), "progression")>>,
           <<"NPC_SOLDIER_WITH_LEO", ItemData(ItemID("LAIR_RELEASE"), LairID("SOLDIER_WITH_LEO"), "progression")>>,
           <<"NPC_SOLDIER_RIGHT_TOWER", ItemData(ItemID("LAIR_RELEASE"), LairID("SOLDIER_RIGHT_TOWER"), "progression")>>,
           <<"NPC_DR_LEO", ItemData(ItemID("LAIR_RELEASE"), LairID("DR_LEO"), "progression")>>,
           <<"NPC_SOLDIER7", ItemData(ItemID("LAIR_RELEASE"), LairID("SOLDIER7"), "filler")>>,
           <<"NPC_SOLDIER8", ItemData(ItemID("LAIR_RELEASE"), LairID("SOLDIER8"), "filler")>>,
           <<"NPC_MAID_HERB", ItemData(ItemID("LAIR_RELEASE"), LairID("MAID_HERB"), "progression")>>,
           <<"NPC_SOLDIER_CASTLE", ItemData(ItemID("LAIR_RELEASE"), LairID("SOLDIER_CASTLE"), "progression")>>,
           <<"NPC_SOLDIER9", ItemData(ItemID("LAIR_RELEASE"), LairID("SOLDIER9"), "filler")>>,
           <<"NPC_SOLDIER10", ItemData(ItemID("LAIR_RELEASE"), LairID("SOLDIER10"), "filler")>>,
           <<"NPC_SOLDIER11", ItemData(ItemID("LAIR_RELEASE"), LairID("SOLDIER11"), "filler")>>,
           <<"NPC_KING_MAGRIDD", ItemData(ItemID("LAIR_RELEASE"), LairID("KING_MAGRIDD"), "progression")>>>>)

souls_table ==
    dict(<<<<"SOUL_MAGICIAN", ItemData(ItemID("SOUL"), 0, "progression")>>,
           <<"SOUL_LIGHT", ItemData(ItemID("SOUL"), 1, "progression")>>,
           <<"SOUL_SHIELD", ItemData(ItemID("SOUL"), 2, "useful")>>,
           <<"SOUL_DETECTION", ItemData(ItemID("SOUL"), 3, "useful")>>,
           <<"SOUL_REALITY", ItemData(ItemID("SOUL"), 4, "progression")>>>>)

special_table ==
    dict(<<<<"VICTORY", ItemData(ItemID("VICTORY"), 0, "progression")>>>>)

all_items_table ==
    dict(items_table
         \o misc_table
         \o npc_release_table
         \o souls_table
         \o special_table)

unique_items_table ==
    SelectSeq(all_items_table,
              LAMBDA kv : ~contains(repeatable_items_table, kv[1]) /\ kv[1] # "VICTORY")

item_name_groups ==
    [swords  |-> keys(swords_table),
     armors  |-> keys(armors_table),
     magic   |-> keys(magic_table),
     stones  |-> keys(stones_table),
     emblems |-> keys(emblems_table),
     redhots |-> keys(redhots_table),
     souls   |-> keys(souls_table)]


-----------------------------------------------------------------------------
(* Rules.py: flags and the item lists of the flag evaluators *)

RuleFlag ==
    {"NONE", "CAN_CUT_METAL", "CAN_CUT_SPIRIT", "HAS_THUNDER", "HAS_MAGIC",
     "HAS_SWORD", "HAS_STONES", "PHOENIX_CUTSCENE"}

metal_items == <<"ZANTETSUSWORD", "SOULBLADE">>

spirit_items == <<"SPIRITSWORD", "SOULBLADE">>

\* Variant: the thunder list without the two metal-cutting swords
thunder_items_ring_only == <<"THUNDERRING">>

thunder_items == <<"THUNDERRING">> \o metal_items

magic_items ==
    <<"FLAMEBALL", "LIGHTARROW", "MAGICFLARE", "ROTATOR",
      "SPARKBOMB", "FLAMEPILLAR", "TORNADO">>

sword_items == keys(swords_table)

\* NPC-release and key items named by the modelled entries of location_dependencies
mountain_king_items ==
    <<"NPC_DANCING_GRANDMA", "NPC_DANCING_GRANDMA2",
      "REDHOTBALL", "REDHOTMIRROR", "REDHOTSTICK">>

-----------------------------------------------------------------------------
(* The CollectionState queries the rules call (BaseClasses, outside this    *)
(* package): possession counts per player, reachability as the search      *)
(* currently reports it, and the world options reached through the state.  *)

\* prog_items[player] is a Counter: an item never collected counts 0
count_of(st, item, player) ==
    IF item \in DOMAIN st.prog_items[player] THEN st.prog_items[player][item] ELSE 0

has(st, item, player) == count_of(st, item, player) >= 1

has_any(st, items, player) ==
    \E k \in 1..Len(items) : count_of(st, items[k], player) >= 1

has_all(st, items, player) ==
    \A k \in 1..Len(items) : count_of(st, items[k], player) >= 1

RECURSIVE group_found(_, _, _, _)
group_found(st, names, player, k) ==
    IF k > Len(names) THEN 0
    ELSE count_of(st, names[k], player) + group_found(st, names, player, k + 1)

has_group(st, group, player, count) ==
    group_found(st, item_name_groups[group], player, 1) >= count

can_reach_location(st, spot, player) == spot \in st.reachable_locations[player]

can_reach_region(st, spot, player) == spot \in st.reachable_regions[player]

options_stones_count(st, player) == st.stones_count[player]

-----------------------------------------------------------------------------
(* Rules.py: flag evaluators.  An evaluator receives the state object by    *)
(* reference; Ret pairs the boolean it returns with the state it leaves.    *)

Ret(v, st) == [val |-> v, st |-> st]

\* Variant: true only on a state in which the player holds something
no_requirement_holding(st, player) ==
    Ret(\E i \in DOMAIN st.prog_items[player] : st.prog_items[player][i] >= 1, st)

no_requirement(st, player) == Ret(TRUE, st)

\* Variant: true only while exactly one of the two swords is held
can_cut_metal_one_sword(st, player) ==
    Ret(Cardinality({k \in 1..Len(metal_items) : has(st, metal_items[k], player)}) = 1, st)

can_cut_metal(st, player) == Ret(has_any(st, metal_items, player), st)

can_cut_spirit(st, player) == Ret(has_any(st, spirit_items, player), st)

has_thunder(st, player) == Ret(has_any(st, thunder_items, player), st)

\* Variant: either the soul or a spell is enough
has_magic_either(st, player) ==
    Ret(has(st, "SOUL_MAGICIAN", player) \/ has_any(st, magic_items, player), st)

has_magic(st, player) ==
    Ret(has(st, "SOUL_MAGICIAN", player) /\ has_any(st, magic_items, player), st)

has_sword(st, player) == Ret(has_any(st, sword_items, player), st)

\* Variant: the threshold read at the first call is kept for the later ones
has_stones_cached(st, player) ==
    LET count == IF evaluated_at # -1 THEN evaluated_at
                 ELSE options_stones_count(st, player)
    IN  Ret(has_group(st, "stones", player, count), st)

has_stones(st, player) ==
    LET count == options_stones_count(st, player)
    IN  Ret(has_group(st, "stones", player, count), st)

\* Variant: the requirements of the Mountain King are asked of the items held
has_phoenix_cutscene_items(st, player) ==
    Ret(has_all(st, mountain_king_items, player), st)

\* Variant: the answer is remembered in the state object
has_phoenix_cutscene_caching(st, player) ==
    LET v == can_reach_location(st, "MOUNTAIN_KING", player)
    IN  Ret(v, IF v THEN [st EXCEPT !.reachable_regions[player] = @ \cup {"MOUNTAIN_KING"}]
               ELSE st)

has_phoenix_cutscene(st, player) ==
    Ret(can_reach_location(st, "MOUNTAIN_KING", player), st)

rule_for_flag ==
    [NONE             |-> "no_requirement",
     CAN_CUT_METAL    |-> "can_cut_metal",
     CAN_CUT_SPIRIT   |-> "can_cut_spirit",
     HAS_THUNDER      |-> "has_thunder",
     HAS_MAGIC        |-> "has_magic",
     HAS_SWORD        |-> "has_sword",
     HAS_STONES       |-> "has_stones",
     PHOENIX_CUTSCENE |-> "has_phoenix_cutscene"]

\* flag_rule(state, player): calling the function object taken from rule_for_flag
flag_rule_call(flag_rule, st, player) ==
    CASE flag_rule = "no_requirement"       -> no_requirement(st, player)
      [] flag_rule = "can_cut_metal"        -> can_cut_metal(st, player)
      [] flag_rule = "can_cut_spirit"       -> can_cut_spirit(st, player)
      [] flag_rule = "has_thunder"          -> has_thunder(st, player)
      [] flag_rule = "has_magic"            -> has_magic(st, player)
      [] flag_rule = "has_sword"            -> has_sword(st, player)
      [] flag_rule = "has_stones"           -> has_stones(st, player)
      [] flag_rule = "has_phoenix_cutscene" -> has_phoenix_cutscene(st, player)

-----------------------------------------------------------------------------
(* Rules.py: the RuleData dataclasses.  Every object carries `next`; the    *)
(* fields a subclass does not declare hold their dataclass defaults.        *)

RuleData(next) ==
    [cls |-> "RuleData", flag |-> "NONE", items |-> <<>>, spot |-> "", next |-> next]

FlagRuleData(flag, next) ==
    [cls |-> "FlagRuleData", flag |-> flag, items |-> <<>>, spot |-> "", next |-> next]

HasAnyRuleData(items, next) ==
    [cls |-> "HasAnyRuleData", flag |-> "NONE", items |-> items, spot |-> "", next |-> next]

HasAllRuleData(items, next) ==
    [cls |-> "HasAllRuleData", flag |-> "NONE", items |-> items, spot |-> "", next |-> next]

CanReachLocationRuleData(spot, next) ==
    [cls |-> "CanReachLocationRuleData", flag |-> "NONE", items |-> <<>>,
     spot |-> spot, next |-> next]

CanReachRegionRule(spot, next) ==
    [cls |-> "CanReachRegionRule", flag |-> "NONE", items |-> <<>>,
     spot |-> spot, next |-> next]

\* An exception on its way up, as the value the raising call yields
KeyError(key) == [cls |-> "KeyError", key |-> key]

\* Variant: rule_for_flag.get(flag, no_requirement), no flag is ever missing
rule_for_flag_get_no_requirement(flag) ==
    IF flag \in DOMAIN rule_for_flag
    THEN [cls |-> "function", name |-> rule_for_flag[flag]]
    ELSE [cls |-> "function", name |-> "no_requirement"]

\* rule_for_flag[flag]: the subscription raises KeyError for a missing key
rule_for_flag_getitem(flag) ==
    IF flag \in DOMAIN rule_for_flag
    THEN [cls |-> "function", name |-> rule_for_flag[flag]]
    ELSE KeyError(flag)

(* get_rule: the closure `rule` each class returns, as the values it        *)
(* captures: the class whose body it runs, flag_rule (FlagRuleData), the    *)
(* items or spot of self, player, and next_rule (None in the else branch).  *)
(* FlagRuleData looks its flag up before it asks its successor; a KeyError  *)
(* raised by the lookup or by the successor's get_rule ends the call.       *)
RECURSIVE get_rule(_, _)
get_rule(self, player) ==
    LET flag_rule == IF self.cls = "FlagRuleData" THEN rule_for_flag_getitem(self.flag)
                     ELSE [cls |-> "function", name |-> ""]
        next_rule == IF self.next # None THEN get_rule(self.next, player) ELSE None
    IN  IF flag_rule.cls = "KeyError" THEN flag_rule
        ELSE IF next_rule.cls = "KeyError" THEN next_rule
        ELSE [cls       |-> self.cls,
              flag_rule |-> flag_rule.name,
              items     |-> self.items,
              spot      |-> self.spot,
              player    |-> IF self.cls = "RuleData" THEN 0 ELSE player,
              next_rule |-> next_rule]

\* The closure alone, as it names itself in the evaluator trace
Tag(c) == [c EXCEPT !.next_rule = None]

\* What the closure's own test yields: value, state left behind, trace
Tested(c, r) == [val |-> r.val, st |-> r.st, calls |-> <<Tag(c)>>]

RECURSIVE call(_, _)

(* `left and next_rule(state)`: Python evaluates next_rule(state) only when *)
(* left is true; a closure built without next returns left.                 *)
and_next_rule(left, c) ==
    IF c.next_rule = None \/ ~left.val THEN left
    ELSE LET r == call(c.next_rule, left.st)
         IN  [val |-> r.val, st |-> r.st, calls |-> left.calls \o r.calls]

RuleData_rule(c, st) ==
    and_next_rule(Tested(c, Ret(TRUE, st)), c)

FlagRuleData_rule(c, st) ==
    and_next_rule(Tested(c, flag_rule_call(c.flag_rule, st, c.player)), c)

\* Variant: every item of the list is required
HasAnyRuleData_rule_all(c, st) ==
    and_next_rule(Tested(c, Ret(has_all(st, c.items, c.player), st)), c)

HasAnyRuleData_rule(c, st) ==
    and_next_rule(Tested(c, Ret(has_any(st, c.items, c.player), st)), c)

\* Variant: the successor is dropped
HasAllRuleData_rule_alone(c, st) ==
    Tested(c, Ret(has_all(st, c.items, c.player), st))

\* Variant: the successor is called whatever the list test gave
HasAllRuleData_rule_eager(c, st) ==
    LET own == Tested(c, Ret(has_all(st, c.items, c.player), st))
    IN  IF c.next_rule = None THEN own
        ELSE LET r == call(c.next_rule, own.st)
             IN  [val |-> own.val /\ r.val, st |-> r.st, calls |-> own.calls \o r.calls]

\* Variant: one item of the list is enough
HasAllRuleData_rule_any(c, st) ==
    and_next_rule(Tested(c, Ret(has_any(st, c.items, c.player), st)), c)

HasAllRuleData_rule(c, st) ==
    and_next_rule(Tested(c, Ret(has_all(st, c.items, c.player), st)), c)

CanReachLocationRuleData_rule(c, st) ==
    and_next_rule(Tested(c, Ret(can_reach_location(st, c.spot, c.player), st)), c)

CanReachRegionRule_rule(c, st) ==
    and_next_rule(Tested(c, Ret(can_reach_region(st, c.spot, c.player), st)), c)

\* rule(state): calling a closure runs the body of the class that built it
call(c, st) ==
    CASE c.cls = "RuleData"                 -> RuleData_rule(c, st)
      [] c.cls = "FlagRuleData"             -> FlagRuleData_rule(c, st)
      [] c.cls = "HasAnyRuleData"           -> HasAnyRuleData_rule(c, st)
      [] c.cls = "HasAllRuleData"           -> HasAllRuleData_rule(c, st)
      [] c.cls = "CanReachLocationRuleData" -> CanReachLocationRuleData_rule(c, st)
      [] c.cls = "CanReachRegionRule"       -> CanReachRegionRule_rule(c, st)

-----------------------------------------------------------------------------
(* Rules.py: location_dependencies, entry by entry in the order of the      *)
(* source, and get_rule_for_location.                                       *)

location_dependencies ==
    [TOOL_SHOP_OWNER                     |-> HasAllRuleData(<<"NPC_TOOL_SHOP_OWNER">>, None),
     EMBLEM_A_TILE                       |-> HasAllRuleData(<<"NPC_IVY", "NPC_IVY_EMBLEM_A">>, None),
     GOAT_PEN_CORNER                     |-> HasAllRuleData(<<"NPC_GOAT_HERB">>, None),
     TEDDY                               |-> HasAllRuleData(<<"NPC_TOOL_SHOP_OWNER", "NPC_TEDDY">>, None),
     PASS_TILE                           |-> HasAllRuleData(<<"NPC_IVY", "NPC_TULIP_PASS">>, None),
     TILE_IN_CHILDS_SECRET_CAVE          |-> HasAllRuleData(<<"NPC_BOY_CAVE", "APASS">>, None),
     RECOVERY_SWORD_CRYSTAL |->
         HasAllRuleData(<<"NPC_IVY_RECOVERY_SWORD", "NPC_BOY_CAVE", "APASS">>, None),
     VILLAGE_CHIEF                       |-> HasAllRuleData(<<"NPC_VILLAGE_CHIEF", "NPC_OLD_WOMAN">>, None),
     MAGICIAN                            |-> FlagRuleData("HAS_SWORD", None),
     MAGICIAN_SOUL                       |-> FlagRuleData("HAS_SWORD", None),
     LAIR_OLD_MAN                        |-> HasAllRuleData(<<"NPC_LISA", "DREAMROD">>, None),
     LAIR_IVY_EMBLEM_A                   |-> FlagRuleData("CAN_CUT_METAL", None),
     LAIR_IVY_RECOVERY_SWORD             |-> FlagRuleData("CAN_CUT_METAL", None),
     CHEST_UNDERGROUND_CASTLE_LEOS_BRUSH |-> HasAllRuleData(<<"NPC_LISA", "DREAMROD">>, None),
     CHEST_LEOS_PAINTING_TORNADO         |-> FlagRuleData("CAN_CUT_METAL", None),
     REDHOT_MIRROR_BIRD                  |-> HasAllRuleData(<<"NPC_BIRD_RED_HOT_MIRROR">>, None),
     MAGIC_BELL_CRYSTAL |->
         HasAllRuleData(keys(emblems_table) \o <<"NPC_DEER_MAGIC_BELL", "NPC_CROCODILE3">>, None),
     WOODSTIN_TRIO |->
         HasAllRuleData(<<"NPC_DEER", "NPC_SQUIRREL3", "NPC_DOG3">>, None),
     GREENWOOD_LEAVES_TILE |->
         HasAllRuleData(<<"NPC_MOLE_SOUL_OF_LIGHT", "NPC_CROCODILE", "NPC_CROCODILE2", "NPC_BIRD_GREENWOOD_LEAF", "DREAMROD">>, None),
     SHIELD_BRACELET_MOLE |->
         HasAllRuleData(<<"NPC_MOLE", "NPC_MOLE_SHIELD_BRACELET", "MOLESRIBBON">>, None),
     PSYCHO_SWORD_SQUIRREL |->
         HasAllRuleData(<<"NPC_SQUIRREL_PSYCHO_SWORD", "DELICIOUSSEEDS">>, None),
     EMBLEM_C_SQUIRREL |->
         HasAllRuleData(<<"NPC_SQUIRREL_EMBLEM_C", "NPC_SQUIRREL_PSYCHO_SWORD">>, None),
     GREENWOODS_GUARDIAN                 |-> HasAllRuleData(<<"NPC_GREENWOODS_GUARDIAN">>, None),
     FIRE_SHRINE_CRYSTAL                 |-> FlagRuleData("CAN_CUT_METAL", None),
     MOLE_SOUL_OF_LIGHT                  |-> HasAllRuleData(<<"NPC_MOLE_SOUL_OF_LIGHT">>, None),
     LAIR_BIRD_RED_HOT_MIRROR            |-> FlagRuleData("CAN_CUT_SPIRIT", None),
     LAIR_BIRD3                          |-> FlagRuleData("CAN_CUT_METAL", None),
     CHEST_GREENWOOD_ICE_ARMOR |->
         HasAllRuleData(<<"NPC_MOLE", "NPC_SQUIRREL_ICE_ARMOR", "DREAMROD">>, None),
     CHEST_GREENWOOD_TUNNELS             |-> HasAllRuleData(<<"NPC_MONMO", "NPC_MOLE3">>, None),
     CHEST_FIRE_SHRINE_2_SCORPION        |-> FlagRuleData("CAN_CUT_METAL", None),
     CHEST_LIGHT_SHRINE                  |-> FlagRuleData("CAN_CUT_SPIRIT", None),
     NORTHEASTERN_MERMAID_HERB           |-> HasAllRuleData(<<"NPC_MERMAID", "NPC_DOLPHIN2">>, None),
     MAGIC_FLARE_MERMAID |->
         HasAllRuleData(<<"NPC_MERMAID_MAGIC_FLARE", "NPC_MERMAID_BUBBLE_ARMOR">>, None),
     REDHOT_STICK_MERMAID                |-> HasAllRuleData(<<"NPC_MERMAID_RED_HOT_STICK">>, None),
     LUE |->
         HasAllRuleData(<<"NPC_LUE", "NPC_DOLPHIN_SAVES_LUE", "NPC_MERMAID_PEARL">>, None),
     MERMAID_QUEEN                       |-> HasAllRuleData(<<"NPC_MERMAID_QUEEN">>, None),
     ANGELFISH_SOUL_OF_SHIELD            |-> HasAllRuleData(<<"NPC_ANGELFISH_SOUL_OF_SHIELD">>, None),
     LAIR_MERMAID_RED_HOT_STICK          |-> FlagRuleData("CAN_CUT_METAL", None),
     LAIR_MERMAID3                       |-> HasAllRuleData(<<"MERMAIDSTEARS">>, None),
     LAIR_MERMAID_STATUE_BLESTER         |-> HasAllRuleData(<<"MERMAIDSTEARS">>, None),
     LAIR_MERMAID_STATUE_GHOST_SHIP      |-> FlagRuleData("HAS_THUNDER", None),
     CHEST_DUREAN_CRITICAL_SWORD         |-> HasAllRuleData(<<"MERMAIDSTEARS">>, None),
     MOUNTAIN_KING |->
         HasAllRuleData(<<"NPC_DANCING_GRANDMA", "NPC_DANCING_GRANDMA2", "REDHOTBALL", "REDHOTMIRROR", "REDHOTSTICK">>, None),
     MUSHROOM_SHOES_BOY                  |-> HasAllRuleData(<<"NPC_BOY_MUSHROOM_SHOES">>, None),
     EMBLEM_E_SNAIL                      |-> HasAllRuleData(<<"NPC_SNAIL_EMBLEM_E">>, None),
     EMBLEM_F_TILE |->
         HasAllRuleData(<<"NPC_MUSHROOM_EMBLEM_F", "NPC_GRANDPA5", "NPC_MUSHROOM2", "DREAMROD">>, None),
     LAIR_SNAIL_EMBLEM_E |->
         HasAllRuleData(<<"NPC_MUSHROOM_EMBLEM_F", "NPC_GRANDPA5", "NPC_MUSHROOM2", "DREAMROD">>, None),
     EMBLEM_G_UNDER_CHEST_OF_DRAWERS |->
         HasAllRuleData(<<"NPC_CHEST_OF_DRAWERS_MYSTIC_ARMOR", "NPC_GREAT_DOOR", "DOORKEY">>, None),
     CHEST_OF_DRAWERS_MYSTIC_ARMOR |->
         HasAllRuleData(<<"NPC_CHEST_OF_DRAWERS_MYSTIC_ARMOR", "NPC_GREAT_DOOR", "DOORKEY">>, None),
     HERB_PLANT_IN_LEOS_LAB |->
         HasAllRuleData(<<"NPC_PLANT_HERB", "NPC_MOUSE", "NPC_CAT", "NPC_CAT2", "ACTINIDIALEAVES">>, None),
     SPARK_BOMB_MOUSE |->
         HasAllRuleData(<<"NPC_MOUSE_SPARK_BOMB", "NPC_MOUSE", "NPC_CAT", "NPC_CAT2", "ACTINIDIALEAVES">>, None),
     LEOS_CAT_DOOR_KEY                   |-> HasAllRuleData(<<"NPC_CAT_DOOR_KEY", "DREAMROD">>, None),
     ACTINIDIA_PLANT                     |-> HasAllRuleData(<<"NPC_PLANT_ACTINIDIA_LEAVES">>, None),
     CHEST_OF_DRAWERS_HERB               |-> HasAllRuleData(<<"NPC_CHEST_OF_DRAWERS2">>, None),
     MARIE                               |-> HasAllRuleData(<<"NPC_MARIE">>, None),
     POWER_PLANT_CRYSTAL |->
         HasAllRuleData(<<"ICEARMOR">>, FlagRuleData("CAN_CUT_METAL", None)),
     GREAT_DOOR_SOUL_OF_DETECTION        |-> HasAllRuleData(<<"NPC_GREAT_DOOR_SOUL_OF_DETECTION">>, None),
     LAIR_PLANT_HERB                     |-> FlagRuleData("CAN_CUT_METAL", None),
     LAIR_CHEST_OF_DRAWERS_MYSTIC_ARMOR  |-> FlagRuleData("CAN_CUT_METAL", None),
     LAIR_CAT2                           |-> FlagRuleData("CAN_CUT_METAL", None),
     LAIR_GREAT_DOOR                     |-> FlagRuleData("CAN_CUT_METAL", None),
     LAIR_GREAT_DOOR_MODEL_TOWNS         |-> FlagRuleData("CAN_CUT_METAL", None),
     LAIR_STEPS_UPSTAIRS                 |-> FlagRuleData("CAN_CUT_METAL", None),
     LAIR_MOUSE                          |-> FlagRuleData("CAN_CUT_METAL", None),
     LAIR_DOLL |->
         HasAllRuleData(<<"ICEARMOR">>, FlagRuleData("CAN_CUT_METAL", None)),
     LAIR_MARIE |->
         HasAllRuleData(<<"ICEARMOR">>, FlagRuleData("CAN_CUT_METAL", None)),
     LAIR_MOUSE_SPARK_BOMB               |-> FlagRuleData("HAS_MAGIC", None),
     LAIR_MOUSE3                         |-> FlagRuleData("HAS_MAGIC", None),
     LAIR_MODEL_TOWN2                    |-> FlagRuleData("HAS_MAGIC", None),
     LAIR_MOUSE4                         |-> FlagRuleData("HAS_MAGIC", None),
     LAIR_STEPS_MARIE                    |-> FlagRuleData("HAS_MAGIC", None),
     CHEST_POWER_PLANT_LIGHT_ARMOR       |-> FlagRuleData("CAN_CUT_METAL", None),
     ELEMENTAL_MAIL_SOLDIER |->
         HasAllRuleData(<<"NPC_SOLDIER_ELEMENTAL_MAIL", "DREAMROD">>, None),
     SUPER_BRACELET_TILE |->
         HasAllRuleData(<<"NPC_DR_LEO", "NPC_SOLDIER_WITH_LEO", "NPC_SOLDIER_DOK", "NPC_QUEEN_MAGRIDD">>, None),
     QUEEN_MAGRIDD_VIP_CARD              |-> HasAllRuleData(<<"NPC_QUEEN_MAGRIDD">>, None),
     PLATINUM_CARD_SOLDIER |->
         HasAllRuleData(<<"NPC_SOLDIER_PLATINUM_CARD", "NPC_SINGER_CONCERT_HALL", "HARPSTRING">>, None),
     MAID_HERB                           |-> HasAllRuleData(<<"NPC_MAID_HERB">>, None),
     EMBLEM_H_TILE                       |-> HasAllRuleData(<<"NPC_SOLDIER_CASTLE">>, None),
     KING_MAGRIDD |->
         HasAllRuleData(<<"NPC_KING_MAGRIDD", "NPC_SOLDIER_CASTLE">>, None),
     SOLDIER_SOUL_OF_REALITY             |-> HasAllRuleData(<<"NPC_SOLDIER_SOUL_OF_REALITY">>, None),
     LAIR_SOLDIER2                       |-> FlagRuleData("CAN_CUT_SPIRIT", None),
     LAIR_SOLDIER3                       |-> FlagRuleData("CAN_CUT_SPIRIT", None),
     LAIR_SOLDIER_ELEMENTAL_MAIL         |-> FlagRuleData("CAN_CUT_SPIRIT", None),
     LAIR_SOLDIER4                       |-> FlagRuleData("CAN_CUT_SPIRIT", None),
     LAIR_SINGER_CONCERT_HALL            |-> FlagRuleData("CAN_CUT_SPIRIT", None),
     LAIR_MAID                           |-> FlagRuleData("CAN_CUT_SPIRIT", None),
     LAIR_SOLDIER_PLATINUM_CARD          |-> FlagRuleData("CAN_CUT_SPIRIT", None),
     LAIR_SINGER                         |-> FlagRuleData("CAN_CUT_SPIRIT", None),
     LAIR_KING_MAGRIDD                   |-> HasAllRuleData(<<"AIRSHIPKEY">>, None),
     CHEST_WOE_1_SE                      |-> FlagRuleData("HAS_MAGIC", None),
     CHEST_WOE_1_SW                      |-> FlagRuleData("HAS_MAGIC", None),
     CHEST_WOE_1_REDHOT_BALL             |-> FlagRuleData("HAS_MAGIC", None),
     CHEST_DAZZLING_SPACE_SE             |-> HasAllRuleData(<<"SOULARMOR">>, None),
     CHEST_DAZZLING_SPACE_SW             |-> HasAllRuleData(<<"SOULARMOR">>, None)]

\* Variant: a name the table does not hold asks for a sword
location_dependencies_get_sword(name) ==
    IF name \in DOMAIN location_dependencies
    THEN location_dependencies[name]
    ELSE FlagRuleData("HAS_SWORD", None)

\* Variant: the Mountain King also waits for the phoenix cutscene
location_dependencies_get_phoenix(name) ==
    IF name = "MOUNTAIN_KING"
    THEN [location_dependencies[name] EXCEPT !.next = FlagRuleData("PHOENIX_CUTSCENE", None)]
    ELSE IF name \in DOMAIN location_dependencies
    THEN location_dependencies[name]
    ELSE RuleData(None)

\* dict.get(name, RuleData())
location_dependencies_get(name) ==
    IF name \in DOMAIN location_dependencies
    THEN location_dependencies[name]
    ELSE RuleData(None)

get_rule_for_location(name, player) ==
    get_rule(location_dependencies_get(name), player)

-----------------------------------------------------------------------------
(* The multiworlds the rules are exercised in: the players, the item names *)
(* of the pool, the locations rules are attached to, the regions.  Each     *)
(* holds the items one family of rules reads.                               *)

Multiworlds ==
    { [players   |-> {1, 2},
       itempool  |-> Range(thunder_items) \cup Range(spirit_items),
       locations |-> {"LAIR_IVY_EMBLEM_A", "LAIR_BIRD_RED_HOT_MIRROR",
                      "LAIR_MERMAID_STATUE_GHOST_SHIP"},
       regions   |-> {}],
      [players   |-> {1},
       itempool  |-> {"SOUL_MAGICIAN"} \cup Range(magic_items),
       locations |-> {"LAIR_MOUSE_SPARK_BOMB"},
       regions   |-> {}],
      [players   |-> {1},
       itempool  |-> Range(sword_items),
       locations |-> {"MAGICIAN"},
       regions   |-> {}],
      [players   |-> {1},
       itempool  |-> Range(keys(stones_table)),
       locations |-> {},
       regions   |-> {}],
      [players   |-> {1, 2},
       itempool  |-> {"ICEARMOR", "SOULARMOR"},
       locations |-> {"CHEST_DAZZLING_SPACE_SE", "CHEST_TRIAL_ROOM"},
       regions   |-> {}],
      [players   |-> {1},
       itempool  |-> {"ICEARMOR"} \cup Range(metal_items),
       locations |-> {"POWER_PLANT_CRYSTAL"},
       regions   |-> {}],
      [players   |-> {1, 2},
       itempool  |-> {},
       locations |-> {"MOUNTAIN_KING", "CHEST_TRIAL_ROOM"},
       regions   |-> {"DEATHTOLL"}] }

\* The items a flag's evaluator asks the state about, and the spot it asks to reach
FlagItems(flag) ==
    CASE flag = "CAN_CUT_METAL"  -> Range(metal_items)
      [] flag = "CAN_CUT_SPIRIT" -> Range(spirit_items)
      [] flag = "HAS_THUNDER"    -> Range(thunder_items)
      [] flag = "HAS_MAGIC"      -> {"SOUL_MAGICIAN"} \cup Range(magic_items)
      [] flag = "HAS_SWORD"      -> Range(sword_items)
      [] flag = "HAS_STONES"     -> Range(item_name_groups["stones"])
      [] OTHER                   -> {}

FlagSpots(flag) == IF flag = "PHOENIX_CUTSCENE" THEN {"MOUNTAIN_KING"} ELSE {}

\* Item lists of the HasAny / HasAll rules written over a multiworld's key items
ItemLists(mw) ==
    (IF "ICEARMOR" \in mw.itempool THEN {<<>>, <<"ICEARMOR">>} ELSE {})
    \cup (IF {"ICEARMOR", "SOULARMOR"} \subseteq mw.itempool
          THEN {<<"ICEARMOR", "SOULARMOR">>} ELSE {})

\* Single rule objects that speak only of what exists in the multiworld
Nodes(mw) ==
    {RuleData(None)}
    \cup {FlagRuleData(f, None) :
            f \in {g \in RuleFlag : /\ FlagItems(g) \subseteq mw.itempool
                                    /\ FlagSpots(g) \subseteq mw.locations}}
    \cup {HasAnyRuleData(l, None) : l \in ItemLists(mw)}
    \cup {HasAllRuleData(l, None) : l \in ItemLists(mw)}
    \cup {CanReachLocationRuleData(s, None) : s \in mw.locations \cap {"MOUNTAIN_KING"}}
    \cup {CanReachRegionRule(s, None) : s \in mw.regions}

\* Chains of exactly n objects, built through the `next` argument
RECURSIVE ChainsOfLen(_, _)
ChainsOfLen(mw, n) ==
    IF n = 1 THEN Nodes(mw)
    ELSE {[h EXCEPT !.next = t] : h \in Nodes(mw), t \in ChainsOfLen(mw, n - 1)}

Chains(mw) == UNION {ChainsOfLen(mw, n) : n \in 1..MaxChainLen}

\* Stones thresholds a world of this multiworld can be configured with
StonesCounts(mw) ==
    IF Range(keys(stones_table)) \subseteq mw.itempool THEN 1..MaxStonesCount ELSE {1}

-----------------------------------------------------------------------------
(* Items.py: ItemData, SoulBlazerItem and the item pool.  The objects the   *)
(* code shares by reference are kept in a memory `mem`: mem.module holds    *)
(* what the module creates when it is imported (the ItemData objects of the *)
(* tables, under the name that owns them, and the two vanilla lists),       *)
(* mem.world what one world creates during generation.  An operation takes  *)
(* the memory and returns the memory it leaves.                             *)

herb_count == 20

bottle_count == 7

nothing_count == 3

gem_values_vanilla ==
    <<1, 12, 40, 50, 50, 50, 50, 50, 60, 60, 80, 80, 80, 80, 80, 100, 100, 100, 100, 150, 200>>

exp_values_vanilla ==
    <<1, 30, 80, 150, 180, 200, 250, 300, 300, 300, 300, 300, 400>>

\* Variant: the soul branch is missing, a soul is coded by its id alone
ItemData_code_no_soul(self) ==
    IF self.id = ItemID("LAIR_RELEASE") THEN BASE_ID + LAIR_ID_OFFSET + self.operand
    ELSE BASE_ID + self.id

\* Variant: the operand is part of the code of the currencies as well
ItemData_code_currency_operand(self) ==
    IF self.id = ItemID("LAIR_RELEASE") THEN BASE_ID + LAIR_ID_OFFSET + self.operand
    ELSE IF self.id = ItemID("SOUL") THEN BASE_ID + SOUL_OFFSET + self.operand
    ELSE IF self.id \in {ItemID("GEMS"), ItemID("EXP")} THEN BASE_ID + self.id + self.operand
    ELSE BASE_ID + self.id

\* ItemData.code
ItemData_code(self) ==
    IF self.id = ItemID("LAIR_RELEASE") THEN BASE_ID + LAIR_ID_OFFSET + self.operand
    ELSE IF self.id = ItemID("SOUL") THEN BASE_ID + SOUL_OFFSET + self.operand
    ELSE BASE_ID + self.id

\* ItemData.duplicate(operand=value): dataclasses.replace builds a new object
duplicate(self, operand) == [self EXCEPT !.operand = operand]

\* References to ItemData objects: an object of the tables, or the n-th
\* object a world has made with duplicate
TemplateRef(name) == [template |-> name, copy |-> 0]

CopyRef(n) == [template |-> "", copy |-> n]

Deref(mem, ref) ==
    IF ref.copy = 0 THEN mem.module.templates[ref.template]
    ELSE mem.world.copies[ref.copy]

\* SoulBlazerItem.__init__: Item.__init__ stores name, classification, code
\* and player; the instance keeps the reference to its ItemData
SoulBlazerItem(mem, name, player, itemData) ==
    [name           |-> name,
     classification |-> Deref(mem, itemData).classification,
     code           |-> ItemData_code(Deref(mem, itemData)),
     player         |-> player,
     itemData       |-> itemData]

\* SoulBlazerItem.operand
operand(mem, self) == Deref(mem, mem.world.items[self].itemData).operand

\* The instance a constructor call has just made takes the next place of
\* the world's instances; its place is its identity
new_item(mem, item) == [mem EXCEPT !.world.items = Append(@, item)]

\* Variant: the operand is written into the object the instance refers to
set_operand_in_place(mem, self, value) ==
    LET ref == mem.world.items[self].itemData
    IN  IF ref.copy = 0
        THEN [mem EXCEPT !.module.templates[ref.template].operand = value]
        ELSE [mem EXCEPT !.world.copies[ref.copy].operand = value]

\* SoulBlazerItem.set_operand: the instance is pointed at a duplicate
set_operand(mem, self, value) ==
    LET made == duplicate(Deref(mem, mem.world.items[self].itemData), value)
    IN  [mem EXCEPT !.world.copies = Append(@, made),
                    !.world.items[self].itemData = CopyRef(Len(mem.world.copies) + 1)]

\* The operand setter assigns to a field of a frozen dataclass, which raises
\* FrozenInstanceError before anything is written
operand_setter(mem, self, value) ==
    [mem EXCEPT !.world.raised = "FrozenInstanceError"]

\* random.Random.randint(a, b) on the generator a world was seeded with: the
\* draw is a function of the generator's state, which it advances
randint(random, a, b) ==
    LET next == (random * 75 + 74) % 65537
    IN  [value |-> a + (next % (b - a + 1)), random |-> next]

\* [random.randint(a, b) for _ in range(n)]
RECURSIVE randints(_, _, _, _)
randints(random, a, b, n) ==
    IF n = 0 THEN [values |-> <<>>, random |-> random]
    ELSE LET first == randint(random, a, b)
             rest  == randints(first.random, a, b, n - 1)
         IN  [values |-> <<first.value>> \o rest.values, random |-> rest.random]

\* Variant: the gems are drawn in the range of the exp rewards
create_gem_pool_exp_range(mem) ==
    LET gems == mem.module.gem_values_vanilla
    IN  IF mem.world.options.gem_exp_pool = "random_range"
        THEN randints(mem.world.random, 1, 9999, Len(gems))
        ELSE IF mem.world.options.gem_exp_pool = "improved"
        THEN [values |-> [k \in 1..Len(gems) |-> gems[k] * 2], random |-> mem.world.random]
        ELSE [values |-> gems, random |-> mem.world.random]

\* Variant: the test for "improved" is lost and every fixed pool is doubled
create_gem_pool_doubled(mem) ==
    LET gems == mem.module.gem_values_vanilla
    IN  IF mem.world.options.gem_exp_pool = "random_range"
        THEN randints(mem.world.random, 1, 999, Len(gems))
        ELSE [values |-> [k \in 1..Len(gems) |-> gems[k] * 2], random |-> mem.world.random]

\* create_gem_pool: the values and the generator as the draws leave it
create_gem_pool(mem) ==
    LET gems == mem.module.gem_values_vanilla
    IN  IF mem.world.options.gem_exp_pool = "random_range"
        THEN randints(mem.world.random, 1, 999, Len(gems))
        ELSE IF mem.world.options.gem_exp_pool = "improved"
        THEN [values |-> [k \in 1..Len(gems) |-> gems[k] * 2], random |-> mem.world.random]
        ELSE [values |-> gems, random |-> mem.world.random]

\* Variant: the values are drawn from the generator of the random module,
\* which the world's seed does not set
create_exp_pool_process_random(mem) ==
    LET exps == mem.module.exp_values_vanilla
    IN  IF mem.world.options.gem_exp_pool = "random_range"
        THEN [values |-> randints(process_random, 1, 9999, Len(exps)).values,
              random |-> mem.world.random]
        ELSE IF mem.world.options.gem_exp_pool = "improved"
        THEN [values |-> [k \in 1..Len(exps) |-> exps[k] * 10], random |-> mem.world.random]
        ELSE [values |-> exps, random |-> mem.world.random]

\* create_exp_pool
create_exp_pool(mem) ==
    LET exps == mem.module.exp_values_vanilla
    IN  IF mem.world.options.gem_exp_pool = "random_range"
        THEN randints(mem.world.random, 1, 9999, Len(exps))
        ELSE IF mem.world.options.gem_exp_pool = "improved"
        THEN [values |-> [k \in 1..Len(exps) |-> exps[k] * 10], random |-> mem.world.random]
        ELSE [values |-> exps, random |-> mem.world.random]

\* world.create_item(name): an instance over the table's own ItemData
create_item(mem, name) ==
    SoulBlazerItem(mem, name, mem.world.player, TemplateRef(name))

\* [SoulBlazerItem(name, world.player, table[name]) for name in names]
create_instances(mem, names) ==
    [mem EXCEPT !.world.items =
        @ \o [k \in 1..Len(names) |->
                 SoulBlazerItem(mem, names[k], mem.world.player, TemplateRef(names[k]))]]

\* [... for _ in range(count)]
repeated(name, count) == [k \in 1..count |-> name]

\* [world.create_item(name).set_operand(value) for value in values]: the
\* world held `before` instances when the comprehension began, and the
\* instances made since tell which value is next
RECURSIVE create_currency_items(_, _, _, _)
create_currency_items(mem, name, values, before) ==
    LET k == Len(mem.world.items) - before + 1
    IN  IF k > Len(values) THEN mem
        ELSE LET made == new_item(mem, create_item(mem, name))
             IN  create_currency_items(
                     set_operand(made, Len(made.world.items), values[k]),
                     name, values, before)

\* The places of the instances made since the world held `before` of them
made_since(mem, before) ==
    [k \in 1..(Len(mem.world.items) - before) |-> before + k]

\* itempool, up to the `Nothing` rewards (lines 118 to 131)
create_itempool_fixed(mem) ==
    create_instances(mem,
                     keys(unique_items_table)
                     \o repeated("MEDICALHERB", herb_count)
                     \o repeated("STRANGEBOTTLE", bottle_count)
                     \o repeated("NOTHING", nothing_count))

\* world.gem_items = [...]; itempool += world.gem_items
create_itempool_gems(mem) ==
    LET pool   == create_gem_pool(mem)
        drawn  == [mem EXCEPT !.world.random = pool.random]
        before == Len(drawn.world.items)
        made   == create_currency_items(drawn, "GEMS", pool.values, before)
    IN  [made EXCEPT !.world.gem_items = made_since(made, before),
                     !.world.itempool  = @ \o made_since(made, before)]

\* Variant: the exp instances are made but never added to the pool
create_itempool_exps_kept_out(mem) ==
    LET pool   == create_exp_pool(mem)
        drawn  == [mem EXCEPT !.world.random = pool.random]
        before == Len(drawn.world.items)
        made   == create_currency_items(drawn, "EXP", pool.values, before)
    IN  [made EXCEPT !.world.exp_items = made_since(made, before)]

\* world.exp_items = [...]; itempool += world.exp_items
create_itempool_exps(mem) ==
    LET pool   == create_exp_pool(mem)
        drawn  == [mem EXCEPT !.world.random = pool.random]
        before == Len(drawn.world.items)
        made   == create_currency_items(drawn, "EXP", pool.values, before)
    IN  [made EXCEPT !.world.exp_items = made_since(made, before),
                     !.world.itempool  = @ \o made_since(made, before)]

\* create_itempool: the list returned is left in mem.world.itempool
create_itempool(mem) ==
    LET fixed == create_itempool_fixed(mem)
        pool  == [fixed EXCEPT !.world.itempool = made_since(fixed, Len(mem.world.items))]
    IN  create_itempool_exps(create_itempool_gems(pool))

-----------------------------------------------------------------------------
(* The parts of the program a specification leaves at rest *)

\* What importing Items.py leaves behind
ItemsAtImport ==
    [templates          |-> [name \in Range(keys(all_items_table)) |->
                                getitem(all_items_table, name)],
     gem_values_vanilla |-> gem_values_vanilla,
     exp_values_vanilla |-> exp_values_vanilla]

\* No world has been generated yet
ItemsAtStart ==
    /\ Items = ItemsAtImport
    /\ world = None
    /\ previous = None
    /\ process_random = 0

\* The item pool is not followed
ItemsIdle ==
    /\ Items = None
    /\ world = None
    /\ previous = None
    /\ process_random = 0

\* No multiworld is being filled
RulesIdle ==
    /\ multiworld = None
    /\ state = None
    /\ rule = None
    /\ last = None
    /\ evaluated_at = -1

\* No search is running
SearchesIdle ==
    /\ searches = <<>>
    /\ memo = None

\* No table is being merged
MergeIdle == merged = None

\* No caller is sweeping the rules
SweepIdle == sweep = None

-----------------------------------------------------------------------------
(* State machine *)

\* Copies of items collected so far, over all players
RECURSIVE HeldFrom(_, _)
HeldFrom(st, n) ==
    LET slots == {pi \in multiworld.players \X multiworld.itempool : st.prog_items[pi[1]][pi[2]] >= n}
    IN  IF slots = {} THEN 0 ELSE Cardinality(slots) + HeldFrom(st, n + 1)

Held(st) == HeldFrom(st, 1)

Init ==
    /\ multiworld \in Multiworlds
    /\ \E sc \in [multiworld.players -> StonesCounts(multiworld)] :
         state = [prog_items          |-> [p \in multiworld.players |-> [i \in multiworld.itempool |-> 0]],
                  reachable_locations |-> [p \in multiworld.players |-> {}],
                  reachable_regions   |-> [p \in multiworld.players |-> {}],
                  stones_count        |-> sc]
    /\ rule = None
    /\ last = None
    /\ evaluated_at = -1
    /\ SearchesIdle
    /\ ItemsIdle
    /\ MergeIdle
    /\ SweepIdle

\* The fill algorithm collects one more copy of an item for a player
Collect(p, i) ==
    /\ Held(state) < MaxHeld
    /\ state' = [state EXCEPT !.prog_items[p][i] = @ + 1]
    /\ last' = None
    /\ UNCHANGED <<multiworld, rule, evaluated_at>>
    /\ UNCHANGED <<search_vars, items_vars, merge_vars, sweep_vars>>

\* The search finds a location reachable for a player
ReachLocation(p, s) ==
    /\ s \notin state.reachable_locations[p]
    /\ state' = [state EXCEPT !.reachable_locations[p] = @ \cup {s}]
    /\ last' = None
    /\ UNCHANGED <<multiworld, rule, evaluated_at>>
    /\ UNCHANGED <<search_vars, items_vars, merge_vars, sweep_vars>>

\* The search finds a region reachable for a player
ReachRegion(p, s) ==
    /\ s \notin state.reachable_regions[p]
    /\ state' = [state EXCEPT !.reachable_regions[p] = @ \cup {s}]
    /\ last' = None
    /\ UNCHANGED <<multiworld, rule, evaluated_at>>
    /\ UNCHANGED <<search_vars, items_vars, merge_vars, sweep_vars>>

\* A world's stones_count option is given another value
SetStonesCount(p, n) ==
    /\ n # state.stones_count[p]
    /\ state' = [state EXCEPT !.stones_count[p] = n]
    /\ last' = None
    /\ UNCHANGED <<multiworld, rule, evaluated_at>>
    /\ UNCHANGED <<search_vars, items_vars, merge_vars, sweep_vars>>

\* get_rule_for_location(name, player), for a location of the multiworld
GetRuleForLocation ==
    /\ rule = None
    /\ \E p \in multiworld.players, name \in multiworld.locations :
         rule' = [name   |-> name,
                  chain  |-> location_dependencies_get(name),
                  player |-> p,
                  fn     |-> get_rule_for_location(name, p)]
    /\ UNCHANGED <<multiworld, state, last, evaluated_at>>
    /\ UNCHANGED <<search_vars, items_vars, merge_vars, sweep_vars>>

\* chain.get_rule(player), for a chain that is not looked up in the table
GetRule ==
    /\ rule = None
    /\ \E p \in multiworld.players, chain \in Chains(multiworld) :
         rule' = [name   |-> "",
                  chain  |-> chain,
                  player |-> p,
                  fn     |-> get_rule(chain, p)]
    /\ UNCHANGED <<multiworld, state, last, evaluated_at>>
    /\ UNCHANGED <<search_vars, items_vars, merge_vars, sweep_vars>>

\* Whether a call ran has_stones, which reads the stones_count option
ReadStonesCount(calls) == \E k \in 1..Len(calls) : calls[k].flag_rule = "has_stones"

\* rule(state): the caller calls the predicate it holds
Evaluate ==
    /\ rule # None
    /\ LET r == call(rule.fn, state)
       IN  /\ state' = r.st
           /\ last' = [result     |-> r.val,
                       calls      |-> r.calls,
                       prev_count |-> evaluated_at]
           /\ evaluated_at' = IF ReadStonesCount(r.calls)
                              THEN options_stones_count(state, rule.player)
                              ELSE evaluated_at
    /\ UNCHANGED <<multiworld, rule>>
    /\ UNCHANGED <<search_vars, items_vars, merge_vars, sweep_vars>>

Next ==
    \/ \E p \in multiworld.players, i \in multiworld.itempool : Collect(p, i)
    \/ \E p \in multiworld.players, s \in multiworld.locations \cap {"MOUNTAIN_KING"} : ReachLocation(p, s)
    \/ \E p \in multiworld.players, s \in multiworld.regions : ReachRegion(p, s)
    \/ \E p \in multiworld.players, n \in StonesCounts(multiworld) : SetStonesCount(p, n)
    \/ GetRuleForLocation
    \/ GetRule
    \/ Evaluate

Spec == Init /\ [][Next]_vars

-----------------------------------------------------------------------------
(* State machine of the item pool: worlds are generated one after the       *)
(* other, each from its options and its seed; the world that holds a pool   *)
(* overwrites operands of its instances.                                    *)

Mem == [module |-> Items, world |-> world]

GemExpPool == {"vanilla", "improved", "random_range"}

Seeds == 0..MaxSeed

\* Operands a world writes into an instance after the pool is built
OperandValues == {5}

\* The operands of a list of instances, in order
operands(mem, instances) == [k \in 1..Len(instances) |-> operand(mem, instances[k])]

\* What a finished create_itempool call has produced
Created(mem) ==
    [gems     |-> operands(mem, mem.world.gem_items),
     exps     |-> operands(mem, mem.world.exp_items),
     itempool |-> [k \in 1..Len(mem.world.itempool) |->
                     LET item == mem.world.items[mem.world.itempool[k]]
                     IN  <<item.name, item.code, operand(mem, mem.world.itempool[k])>>]]

\* The instances whose operand the world overwrites: the first two gems
\* and the first herb
Targets ==
    {world.gem_items[1], world.gem_items[2],
     CHOOSE k \in 1..Len(world.items) :
         /\ world.items[k].name = "MEDICALHERB"
         /\ \A j \in 1..(k - 1) : world.items[j].name # "MEDICALHERB"}

\* A world is set up with its options and a generator seeded for it; other
\* code of the process has drawn from the generator of the random module
\* since the world before it was set up
NewWorld(option, seed) ==
    /\ world # None => world.itempool # None
    /\ world' = [player     |-> 1,
                 options    |-> [gem_exp_pool |-> option],
                 seed       |-> seed,
                 random     |-> seed,
                 items      |-> <<>>,
                 copies     |-> <<>>,
                 itempool   |-> None,
                 gem_items  |-> None,
                 exp_items  |-> None,
                 created    |-> None,
                 called     |-> None,
                 calls      |-> 0,
                 raised     |-> ""]
    /\ previous' = IF world = None THEN previous
                   ELSE [options |-> world.options,
                         seed    |-> world.seed,
                         created |-> world.created]
    /\ process_random' = 1 - process_random
    /\ UNCHANGED Items
    /\ UNCHANGED <<rules_vars, search_vars, merge_vars, sweep_vars>>

\* create_itempool(world)
CreateItempool ==
    /\ world # None
    /\ world.itempool = None
    /\ LET mem == create_itempool(Mem)
       IN  /\ Items' = mem.module
           /\ world' = [mem.world EXCEPT !.created = Created(mem)]
    /\ UNCHANGED <<previous, process_random>>
    /\ UNCHANGED <<rules_vars, search_vars, merge_vars, sweep_vars>>

\* item.set_operand(value) on an instance of the pool
SetOperand ==
    /\ world # None
    /\ world.itempool # None
    /\ world.calls < MaxCalls
    /\ \E self \in Targets, value \in OperandValues :
         LET mem == set_operand(Mem, self, value)
         IN  /\ Items' = mem.module
             /\ world' = [mem.world EXCEPT
                             !.called = [method |-> "set_operand", self |-> self, value |-> value],
                             !.calls  = @ + 1,
                             !.raised = ""]
    /\ UNCHANGED <<previous, process_random>>
    /\ UNCHANGED <<rules_vars, search_vars, merge_vars, sweep_vars>>

\* item.operand = value on an instance of the pool
AssignOperand ==
    /\ world # None
    /\ world.itempool # None
    /\ world.calls < MaxCalls
    /\ \E self \in Targets, value \in OperandValues :
         LET mem == operand_setter(Mem, self, value)
         IN  /\ Items' = mem.module
             /\ world' = [mem.world EXCEPT
                             !.called = [method |-> "operand", self |-> self, value |-> value],
                             !.calls  = @ + 1]
    /\ UNCHANGED <<previous, process_random>>
    /\ UNCHANGED <<rules_vars, search_vars, merge_vars, sweep_vars>>

ItemsNext ==
    \/ \E option \in GemExpPool, seed \in Seeds : NewWorld(option, seed)
    \/ CreateItempool
    \/ SetOperand
    \/ AssignOperand

ItemsInit ==
    /\ ItemsAtStart
    /\ RulesIdle
    /\ SearchesIdle
    /\ MergeIdle
    /\ SweepIdle

SpecItems == ItemsInit /\ [][ItemsNext]_vars

-----------------------------------------------------------------------------
(* State machine of the reachability searches: several searches run at the  *)
(* same time, each for its own player over its own state object.  A search  *)
(* builds its predicate once, collects items, and calls the predicate; the  *)
(* call of a chain runs one closure after the other, and the closures of    *)
(* the searches run in any interleaving.  `memo` is the data the engine     *)
(* keeps between calls and shares between the searches.                     *)

Searchers == {1, 2}

SearchItems == {"ZANTETSUSWORD", "ICEARMOR"}

\* The rule objects the searches build predicates from; the flag of the
\* last one has no entry in rule_for_flag
SearchNodes ==
    {FlagRuleData("CAN_CUT_METAL", None),
     HasAllRuleData(<<"ICEARMOR">>, None),
     FlagRuleData("UNREGISTERED", None)}

RECURSIVE SearchChainsOfLen(_)
SearchChainsOfLen(n) ==
    IF n = 1 THEN SearchNodes
    ELSE {[h EXCEPT !.next = t] : h \in SearchNodes, t \in SearchChainsOfLen(n - 1)}

SearchChains == UNION {SearchChainsOfLen(n) : n \in 1..MaxChainLen}

SearchLocations == {"POWER_PLANT_CRYSTAL", "CHEST_TRIAL_ROOM"}

\* Whether a rule object or one of its successors is a FlagRuleData whose
\* flag rule_for_flag does not hold
RECURSIVE HasUnregisteredFlag(_)
HasUnregisteredFlag(chain) ==
    \/ chain.cls = "FlagRuleData" /\ chain.flag \notin DOMAIN rule_for_flag
    \/ chain.next # None /\ HasUnregisteredFlag(chain.next)

\* The state object a search starts from
SearchState(p) ==
    [prog_items          |-> [q \in {p} |-> [i \in SearchItems |-> 0]],
     reachable_locations |-> [q \in {p} |-> {}],
     reachable_regions   |-> [q \in {p} |-> {}],
     stones_count        |-> [q \in {p} |-> 1]]

NoResult == [done |-> FALSE, val |-> FALSE]

SearchesInit ==
    /\ searches = [s \in Searchers |->
                     [player      |-> s,
                      state       |-> SearchState(s),
                      chain       |-> None,
                      fn          |-> None,
                      raised      |-> "",
                      pc          |-> None,
                      result      |-> NoResult,
                      interleaved |-> FALSE]]
    /\ memo = <<>>
    /\ RulesIdle
    /\ ItemsIdle
    /\ MergeIdle
    /\ SweepIdle

\* Variant: the answer of a flag evaluator is remembered under its name and
\* given again to whoever asks next
rule_body_memo(c, st, cache) ==
    IF c.cls = "FlagRuleData" /\ c.flag_rule \in DOMAIN cache
    THEN [val |-> cache[c.flag_rule], st |-> st, cache |-> cache]
    ELSE LET r == call(Tag(c), st)
         IN  [val |-> r.val, st |-> r.st,
              cache |-> IF c.cls = "FlagRuleData"
                        THEN [k \in DOMAIN cache \cup {c.flag_rule} |->
                                 IF k = c.flag_rule THEN r.val ELSE cache[k]]
                        ELSE cache]

\* The left operand of the closure's `and`: the closure's own test, on the
\* state it is handed; the data the engine keeps is left as it was
rule_body(c, st, cache) ==
    LET r == call(Tag(c), st)
    IN  [val |-> r.val, st |-> r.st, cache |-> cache]

\* The search collects an item into its own state between two calls
SearchCollect(s, i) ==
    /\ searches[s].pc = None
    /\ searches[s].state.prog_items[s][i] = 0
    /\ searches' = [searches EXCEPT ![s].state.prog_items[s][i] = 1,
                                    ![s].result = NoResult,
                                    ![s].interleaved = FALSE]
    /\ UNCHANGED <<memo, rules_vars, items_vars, merge_vars, sweep_vars>>

\* What get_rule left the search with: a predicate, or the exception
Constructed(s, chain, got) ==
    IF got.cls = "KeyError"
    THEN [searches EXCEPT ![s].chain = chain, ![s].raised = "KeyError"]
    ELSE [searches EXCEPT ![s].chain = chain, ![s].fn = got]

\* chain.get_rule(player)
SearchGetRule(s, chain) ==
    /\ searches[s].chain = None
    /\ searches' = Constructed(s, chain, get_rule(chain, searches[s].player))
    /\ UNCHANGED <<memo, rules_vars, items_vars, merge_vars, sweep_vars>>

\* get_rule_for_location(name, player)
SearchGetRuleForLocation(s, name) ==
    /\ searches[s].chain = None
    /\ searches' = Constructed(s, location_dependencies_get(name),
                               get_rule_for_location(name, searches[s].player))
    /\ UNCHANGED <<memo, rules_vars, items_vars, merge_vars, sweep_vars>>

\* rule(state): the search calls its predicate; the first closure is entered
SearchCall(s) ==
    /\ searches[s].fn # None
    /\ searches[s].pc = None
    /\ ~searches[s].result.done
    /\ searches' = [searches EXCEPT ![s].pc = searches[s].fn]
    /\ UNCHANGED <<memo, rules_vars, items_vars, merge_vars, sweep_vars>>

\* The closure the call has reached runs: `left and next_rule(state)`
\* returns left when it is false or there is no next_rule, and enters
\* next_rule otherwise
SearchStep(s) ==
    /\ searches[s].pc # None
    /\ LET c     == searches[s].pc
           left  == rule_body(c, searches[s].state, memo)
           mixed == \E t \in Searchers \ {s} : searches[t].pc # None
       IN  /\ memo' = left.cache
           /\ searches' =
                IF c.next_rule = None \/ ~left.val
                THEN [searches EXCEPT ![s].state = left.st,
                                      ![s].pc = None,
                                      ![s].result = [done |-> TRUE, val |-> left.val],
                                      ![s].interleaved = @ \/ mixed]
                ELSE [searches EXCEPT ![s].state = left.st,
                                      ![s].pc = c.next_rule,
                                      ![s].interleaved = @ \/ mixed]
    /\ UNCHANGED <<rules_vars, items_vars, merge_vars, sweep_vars>>

SearchesNext ==
    \/ \E s \in Searchers, i \in SearchItems : SearchCollect(s, i)
    \/ \E s \in Searchers, chain \in SearchChains : SearchGetRule(s, chain)
    \/ \E s \in Searchers, name \in SearchLocations : SearchGetRuleForLocation(s, name)
    \/ \E s \in Searchers : SearchCall(s)
    \/ \E s \in Searchers : SearchStep(s)

SpecSearches == SearchesInit /\ [][SearchesNext]_vars

-----------------------------------------------------------------------------
(* State machine of the table merge: two category tables are written entry  *)
(* by entry, then merged the way items_table and all_items_table are, by a  *)
(* dict display that unpacks the one after the other.                       *)

MergeNames == {"NOTHING", "GEMS", "EXP"}

\* The records a category can give a name: the one misc_table gives it, and
\* one with another operand
MergeRecords(name) ==
    {getitem(misc_table, name), duplicate(getitem(misc_table, name), 1)}

MergeInit ==
    /\ merged = [a |-> <<>>, b |-> <<>>, done |-> FALSE, result |-> <<>>, raised |-> ""]
    /\ RulesIdle
    /\ SearchesIdle
    /\ ItemsIdle
    /\ SweepIdle

\* One more `name: record` entry in the display of a category table
DefineEntry(t, name, record) ==
    /\ ~merged.done
    /\ Len(merged[t]) < MaxTableLen
    /\ ~contains(merged[t], name)
    /\ merged' = [merged EXCEPT ![t] = dict(@ \o <<<<name, record>>>>)]
    /\ UNCHANGED <<rules_vars, search_vars, items_vars, sweep_vars>>

\* master = {**a, **b}
Merge ==
    /\ ~merged.done
    /\ merged' = [merged EXCEPT !.done = TRUE, !.result = dict(merged.a \o merged.b)]
    /\ UNCHANGED <<rules_vars, search_vars, items_vars, sweep_vars>>

MergeNext ==
    \/ \E t \in {"a", "b"}, name \in MergeNames :
          \E record \in MergeRecords(name) : DefineEntry(t, name, record)
    \/ Merge

SpecMerge == MergeInit /\ [][MergeNext]_vars

-----------------------------------------------------------------------------
(* The caller of the rules (the reachability sweep of BaseClasses, outside  *)
(* this package).  It attaches get_rule_for_location(name, player) to every *)
(* location, holds one CollectionState that gains items and reachable       *)
(* locations, and calls every rule again until a round changes no answer.   *)
(* One sweep follows one location of the table together with the items and *)
(* spots its rule reads.                                                    *)

\* The player whose locations are swept
SweepPlayer == 1

\* Items, locations and regions the objects of a chain ask the state about
RECURSIVE ChainItems(_)
ChainItems(chain) ==
    (CASE chain.cls = "FlagRuleData" -> FlagItems(chain.flag)
       [] chain.cls \in {"HasAnyRuleData", "HasAllRuleData"} -> Range(chain.items)
       [] OTHER -> {})
    \cup (IF chain.next = None THEN {} ELSE ChainItems(chain.next))

RECURSIVE ChainLocations(_)
ChainLocations(chain) ==
    (CASE chain.cls = "FlagRuleData" -> FlagSpots(chain.flag)
       [] chain.cls = "CanReachLocationRuleData" -> {chain.spot}
       [] OTHER -> {})
    \cup (IF chain.next = None THEN {} ELSE ChainLocations(chain.next))

RECURSIVE ChainRegions(_)
ChainRegions(chain) ==
    (IF chain.cls = "CanReachRegionRule" THEN {chain.spot} ELSE {})
    \cup (IF chain.next = None THEN {} ELSE ChainRegions(chain.next))

\* The locations rules are attached to: every name of the table, and one
\* name the table does not hold
SweepLocations == DOMAIN location_dependencies \cup {"CHEST_TRIAL_ROOM"}

SweepWorld(name) ==
    LET chain == location_dependencies_get(name)
    IN  [players   |-> {SweepPlayer},
         itempool  |-> ChainItems(chain),
         locations |-> {name} \cup ChainLocations(chain),
         regions   |-> ChainRegions(chain)]

\* The reachability a closure asks the state about when it is called
QueryOf(c) ==
    CASE c.cls = "CanReachLocationRuleData" -> {[kind |-> "location", spot |-> c.spot]}
      [] c.cls = "CanReachRegionRule"       -> {[kind |-> "region", spot |-> c.spot]}
      [] c.cls = "FlagRuleData"             ->
           {[kind |-> "location", spot |-> s] :
              s \in UNION {FlagSpots(f) : f \in {g \in DOMAIN rule_for_flag :
                                                   rule_for_flag[g] = c.flag_rule}}}
      [] OTHER                              -> {}

\* location.access_rule(state) for the rule set_rule attached to `name`
access_rule(name, st) == call(sweep.rules[name], st)

SweepInit ==
    /\ \E name \in SweepLocations : multiworld = SweepWorld(name)
    /\ state = [prog_items          |-> [p \in multiworld.players |-> [i \in multiworld.itempool |-> 0]],
                reachable_locations |-> [p \in multiworld.players |-> {}],
                reachable_regions   |-> [p \in multiworld.players |-> {}],
                stones_count        |-> [p \in multiworld.players |-> 1]]
    /\ sweep = [rules    |-> [l \in multiworld.locations |->
                                 get_rule_for_location(l, SweepPlayer)],
                verdicts |-> [l \in multiworld.locations |-> FALSE],
                asked    |-> [l \in multiworld.locations |-> {}],
                pending  |-> TRUE]
    /\ rule = None
    /\ last = None
    /\ evaluated_at = -1
    /\ SearchesIdle
    /\ ItemsIdle
    /\ MergeIdle

\* An item of the pool reaches the player: state.collect(item)
SweepCollect(item) ==
    /\ state.prog_items[SweepPlayer][item] = 0
    /\ state' = [state EXCEPT !.prog_items[SweepPlayer][item] = 1]
    /\ sweep' = [sweep EXCEPT !.pending = TRUE]
    /\ UNCHANGED <<multiworld, rule, last, evaluated_at>>
    /\ UNCHANGED <<search_vars, items_vars, merge_vars>>

\* A location whose rule answered true in the latest round becomes reachable
SweepReach(name) ==
    /\ sweep.verdicts[name]
    /\ name \notin state.reachable_locations[SweepPlayer]
    /\ state' = [state EXCEPT !.reachable_locations[SweepPlayer] = @ \cup {name}]
    /\ sweep' = [sweep EXCEPT !.pending = TRUE]
    /\ UNCHANGED <<multiworld, rule, last, evaluated_at>>
    /\ UNCHANGED <<search_vars, items_vars, merge_vars>>

\* The stones option is given a higher value
SweepSetStonesCount ==
    /\ state.stones_count[SweepPlayer] < MaxStonesCount
    /\ state' = [state EXCEPT !.stones_count[SweepPlayer] = @ + 1]
    /\ sweep' = [sweep EXCEPT !.pending = TRUE]
    /\ UNCHANGED <<multiworld, rule, last, evaluated_at>>
    /\ UNCHANGED <<search_vars, items_vars, merge_vars>>

\* One round: every rule is called on the state as it is; the caller goes
\* round again when an answer differs from the round before
SweepRound ==
    /\ sweep.pending
    /\ \E result \in {[l \in multiworld.locations |-> access_rule(l, state)]} :
          \E verdicts \in {[l \in multiworld.locations |-> result[l].val]} :
             sweep' = [rules    |-> sweep.rules,
                       verdicts |-> verdicts,
                       asked    |-> [l \in multiworld.locations |->
                                       UNION {QueryOf(result[l].calls[k]) :
                                                k \in 1..Len(result[l].calls)}],
                       pending  |-> verdicts # sweep.verdicts]
    /\ UNCHANGED <<multiworld, state, rule, last, evaluated_at>>
    /\ UNCHANGED <<search_vars, items_vars, merge_vars>>

SweepNext ==
    \/ \E item \in multiworld.itempool : SweepCollect(item)
    \/ \E name \in multiworld.locations : SweepReach(name)
    \/ SweepSetStonesCount
    \/ SweepRound

SpecSweep == SweepInit /\ [][SweepNext]_vars

\* The caller does not stop while a round is due
SpecSweepFair == SpecSweep /\ WF_vars(SweepRound)

-----------------------------------------------------------------------------
(* Vocabulary of the properties *)

\* The objects of a chain in order, each cut loose from its successor
RECURSIVE ChainSeq(_)
ChainSeq(chain) ==
    <<[chain EXCEPT !.next = None]>>
    \o (IF chain.next = None THEN <<>> ELSE ChainSeq(chain.next))

\* The value one rule object has by itself on a state, for a player
NodeTrue(node, st, player) == call(get_rule(node, player), st).val

\* A call of `rule` has returned and the state has not changed since
Called == rule # None /\ last # None

\* Copies of an item the player of `rule` holds now
Copies(item) ==
    IF item \in DOMAIN state.prog_items[rule.player]
    THEN state.prog_items[rule.player][item] ELSE 0

Holds(item) == Copies(item) >= 1

IsFlagRule(flag) == rule # None /\ rule.chain = FlagRuleData(flag, None)

-----------------------------------------------------------------------------
(* Properties *)

\* C1: the predicate get_rule returns for a chain is true on a state exactly
\* when every object of the chain, head and successors, is true on that state
\* for that player.
C1_ChainIsConjunction ==
    Called =>
        LET seq == ChainSeq(rule.chain)
        IN  last.result = \A k \in 1..Len(seq) : NodeTrue(seq[k], state, rule.player)

\* C1 witness: the two-object chain of POWER_PLANT_CRYSTAL has been called and
\* returned true.
C1_Witness ==
    /\ Called
    /\ rule.name = "POWER_PLANT_CRYSTAL"
    /\ Len(ChainSeq(rule.chain)) = 2
    /\ last.result

\* C2: a call runs the evaluators of the chain in chain order and stops at
\* the first object that is false: every evaluator that ran is the one at its
\* position in the chain, and every object before one that ran was true.
C2_ShortCircuitInOrder ==
    Called =>
        LET seq == ChainSeq(rule.chain)
            n   == Len(last.calls)
        IN  /\ n \in 1..Len(seq)
            /\ \A k \in 1..n : last.calls[k] = get_rule(seq[k], rule.player)
            /\ \A k \in 1..(n - 1) : NodeTrue(seq[k], state, rule.player)

\* C2 witness: the head of a two-object chain was false, its successor would
\* have been true, and only the head's evaluator ran.
C2_Witness ==
    /\ Called
    /\ Len(ChainSeq(rule.chain)) = 2
    /\ rule.chain.cls = "HasAllRuleData"
    /\ ~NodeTrue(ChainSeq(rule.chain)[1], state, rule.player)
    /\ NodeTrue(ChainSeq(rule.chain)[2], state, rule.player)
    /\ Len(last.calls) = 1

\* C3: the predicate get_rule_for_location returns for a name that is no key
\* of location_dependencies is true in every state, and is the predicate of a
\* bare RuleData.
C3_AbsentNameNoRequirement ==
    (rule # None /\ rule.name # "" /\ rule.name \notin DOMAIN location_dependencies) =>
        /\ rule.fn = get_rule(RuleData(None), rule.player)
        /\ last # None => last.result

\* C3 witness: the rule of CHEST_TRIAL_ROOM, which the table does not hold,
\* has been called.
C3_Witness ==
    /\ Called
    /\ rule.name = "CHEST_TRIAL_ROOM"
    /\ rule.name \notin DOMAIN location_dependencies
    /\ last.result

\* C4: a HasAll rule is true exactly when the player holds every item of its
\* list; it is false as soon as one listed item is missing.
C4_HasAllIsAll ==
    (Called /\ rule.chain.cls = "HasAllRuleData" /\ rule.chain.next = None) =>
        last.result = \A i \in Range(rule.chain.items) : Holds(i)

\* C4 witness: a HasAll rule over two items was called while the player held
\* one of the two, and returned false.
C4_Witness ==
    /\ Called
    /\ rule.chain = HasAllRuleData(<<"ICEARMOR", "SOULARMOR">>, None)
    /\ Holds("ICEARMOR")
    /\ ~Holds("SOULARMOR")
    /\ ~last.result

\* C5: a HasAny rule is true exactly when the player holds at least one item
\* of its list; over the empty list it is false in every state.
C5_HasAnyIsAny ==
    (Called /\ rule.chain.cls = "HasAnyRuleData" /\ rule.chain.next = None) =>
        /\ last.result = \E i \in Range(rule.chain.items) : Holds(i)
        /\ rule.chain.items = <<>> => ~last.result

\* C5 witness: a HasAny rule over the empty list was called while the player
\* held items, and returned false.
C5_Witness ==
    /\ Called
    /\ rule.chain = HasAnyRuleData(<<>>, None)
    /\ Holds("ICEARMOR")
    /\ ~last.result

\* The seven offensive spells
SevenSpells ==
    {"FLAMEBALL", "LIGHTARROW", "MAGICFLARE", "ROTATOR",
     "SPARKBOMB", "FLAMEPILLAR", "TORNADO"}

\* C6: HAS_MAGIC is true exactly when the player holds the magician soul and
\* at least one of the seven spells; the soul alone and spells alone are not
\* enough.
C6_HasMagicNeedsBoth ==
    /\ Cardinality(SevenSpells) = 7
    /\ (Called /\ IsFlagRule("HAS_MAGIC")) =>
          last.result = (Holds("SOUL_MAGICIAN") /\ \E i \in SevenSpells : Holds(i))

\* C6 witness: HAS_MAGIC was called while the player held the magician soul
\* and no spell, and returned false.
C6_Witness ==
    /\ Called
    /\ IsFlagRule("HAS_MAGIC")
    /\ Holds("SOUL_MAGICIAN")
    /\ \A i \in SevenSpells : ~Holds(i)
    /\ ~last.result

\* C7: CAN_CUT_METAL is true exactly with Zantetsu Sword or Soul Blade,
\* CAN_CUT_SPIRIT exactly with Spirit Sword or Soul Blade, HAS_THUNDER
\* exactly with Thunder Ring, Zantetsu Sword or Soul Blade; so whenever
\* CAN_CUT_METAL is true HAS_THUNDER is too.
C7_SwordFlags ==
    /\ (Called /\ IsFlagRule("CAN_CUT_METAL")) =>
          last.result = (Holds("ZANTETSUSWORD") \/ Holds("SOULBLADE"))
    /\ (Called /\ IsFlagRule("CAN_CUT_SPIRIT")) =>
          last.result = (Holds("SPIRITSWORD") \/ Holds("SOULBLADE"))
    /\ (Called /\ IsFlagRule("HAS_THUNDER")) =>
          last.result = (Holds("THUNDERRING") \/ Holds("ZANTETSUSWORD") \/ Holds("SOULBLADE"))
    /\ \A p \in multiworld.players :
          NodeTrue(FlagRuleData("CAN_CUT_METAL", None), state, p)
              => NodeTrue(FlagRuleData("HAS_THUNDER", None), state, p)

\* C7 witness: HAS_THUNDER was called while the player held the Zantetsu
\* Sword and no Thunder Ring, and returned true.
C7_Witness ==
    /\ Called
    /\ IsFlagRule("HAS_THUNDER")
    /\ Holds("ZANTETSUSWORD")
    /\ ~Holds("THUNDERRING")
    /\ last.result

\* Copies of stones the player of `rule` holds now
StonesHeld ==
    Copies("BROWNSTONE") + Copies("GREENSTONE") + Copies("BLUESTONE")
    + Copies("SILVERSTONE") + Copies("PURPLESTONE") + Copies("BLACKSTONE")

\* C8: HAS_STONES reads the stones_count option at every call: when the
\* option has another value than at the previous call of the same predicate,
\* the call is true exactly when the player holds at least the new threshold
\* of stones.
C8_StonesThresholdReadAtCall ==
    (/\ Called
     /\ IsFlagRule("HAS_STONES")
     /\ last.prev_count # -1
     /\ last.prev_count # state.stones_count[rule.player]) =>
        last.result = (StonesHeld >= state.stones_count[rule.player])

\* C8 witness: HAS_STONES was called again after the option changed, and the
\* answer is not the one the old threshold gives.
C8_Witness ==
    /\ Called
    /\ IsFlagRule("HAS_STONES")
    /\ last.prev_count # -1
    /\ last.prev_count # state.stones_count[rule.player]
    /\ last.result # (StonesHeld >= last.prev_count)

\* C9: PHOENIX_CUTSCENE is true exactly when the state reports the Mountain
\* King location reachable for the player.
C9_PhoenixIsMountainKingReachable ==
    (Called /\ IsFlagRule("PHOENIX_CUTSCENE")) =>
        last.result = ("MOUNTAIN_KING" \in state.reachable_locations[rule.player])

\* C9 witness: PHOENIX_CUTSCENE was called with the Mountain King reachable
\* for the player, and returned true.
C9_Witness ==
    /\ Called
    /\ IsFlagRule("PHOENIX_CUTSCENE")
    /\ "MOUNTAIN_KING" \in state.reachable_locations[rule.player]
    /\ last.result

\* C10: a call of a predicate leaves the state object as it was, items,
\* reachability and options, and a call repeated on the unchanged state
\* returns the same boolean.
C10_CallLeavesState ==
    [][last' # None =>
         /\ state' = state
         /\ last # None => last'.result = last.result]_vars

\* C10 witness: the HAS_STONES predicate has been called, the player has
\* collected a stone since, and the predicate has been called again.
C10_Witness ==
    /\ Called
    /\ last.prev_count # -1
    /\ StonesHeld >= 1

-----------------------------------------------------------------------------
(* Vocabulary of the item pool properties *)

\* create_itempool has returned for the current world
Built == world # None /\ world.itempool # None

\* The ItemData objects of the tables
TableRecords == {Items.templates[name] : name \in DOMAIN Items.templates}

\* The ItemData objects in use: those of the tables and those the instances
\* of the world refer to
UsedRecords ==
    TableRecords
    \cup (IF world = None THEN {} ELSE Range(world.copies))
    \cup (IF world = None THEN {}
          ELSE {Items.templates[world.items[k].name] :
                  k \in {j \in 1..Len(world.items) : world.items[j].itemData.copy = 0}})

\* The (kind, operand) pair of a record
KindOperand(r) == <<r.id, r.operand>>

Currencies == {ItemID("GEMS"), ItemID("EXP")}

NpcRelease == ItemID("LAIR_RELEASE")

Soul == ItemID("SOUL")

\* The instances of the pool that carry a name
InstancesOf(name) == {k \in Range(world.itempool) : world.items[k].name = name}

-----------------------------------------------------------------------------
(* Properties of the item catalog and the item pool *)

\* C12 as stated: over the records in use, those of the tables and those of
\* the pool's instances with their overwritten operands, two records have
\* the same code exactly when they have the same (kind, operand).
C12_CodeInjectiveOverUsedPairs ==
    \A r1, r2 \in UsedRecords :
        (KindOperand(r1) = KindOperand(r2)) <=> (ItemData_code(r1) = ItemData_code(r2))

\* C12, amended: the code is injective over the (kind, operand) pairs of the
\* static tables; the code of a record that is neither an NPC release nor a
\* soul does not depend on its operand, so every currency instance of the
\* pool, whatever operand was written into it, has the code of the table
\* record of its currency.
C12_CodeInjectiveOverTables ==
    /\ Cardinality({ItemData_code(r) : r \in TableRecords})
         = Cardinality({KindOperand(r) : r \in TableRecords})
    /\ Built =>
         \A k \in Range(world.gem_items) \cup Range(world.exp_items) :
             LET item == world.items[k]
             IN  /\ item.code = ItemData_code(Items.templates[item.name])
                 /\ ItemData_code(Deref(Mem, item.itemData)) = item.code

\* C12 witness: the pool holds two gem instances with different operands and
\* the same code.
C12_Witness ==
    /\ Built
    /\ operand(Mem, world.gem_items[1]) # operand(Mem, world.gem_items[2])
    /\ world.items[world.gem_items[1]].code = world.items[world.gem_items[2]].code
    /\ ItemData_code(Deref(Mem, world.items[world.gem_items[1]].itemData))
         = ItemData_code(Deref(Mem, world.items[world.gem_items[2]].itemData))

\* C13 as stated: the code is base + a category offset + operand for the
\* currencies and the souls, and base + kind for every other kind.
C13_CodeByCurrencyAndSoul ==
    /\ \A r \in UsedRecords :
          r.id = ItemID("SOUL") => ItemData_code(r) = BASE_ID + SOUL_OFFSET + r.operand
    /\ \A r1, r2 \in UsedRecords :
          (r1.id \in Currencies /\ r1.id = r2.id) =>
              ItemData_code(r1) - r1.operand = ItemData_code(r2) - r2.operand
    /\ \A r \in UsedRecords :
          r.id \notin Currencies \cup {ItemID("SOUL")} => ItemData_code(r) = BASE_ID + r.id

\* C13, amended: the code is base + lair offset + operand for an NPC
\* release, base + soul offset + operand for a soul, and base + kind for
\* every other kind, the currencies included.
C13_CodeByLairAndSoul ==
    /\ \A r \in UsedRecords :
          ItemData_code(r) =
              CASE r.id = NpcRelease -> BASE_ID + LAIR_ID_OFFSET + r.operand
                [] r.id = Soul       -> BASE_ID + SOUL_OFFSET + r.operand
                [] OTHER             -> BASE_ID + r.id
    /\ Built =>
         /\ \A k \in InstancesOf("GEMS") : world.items[k].code = BASE_ID + ItemID("GEMS")
         /\ \A k \in InstancesOf("EXP") : world.items[k].code = BASE_ID + ItemID("EXP")
         /\ \A k \in InstancesOf("SOUL_REALITY") :
                world.items[k].code = BASE_ID + SOUL_OFFSET + 4
         /\ \A k \in InstancesOf("NPC_MOUNTAIN_KING") :
                world.items[k].code = BASE_ID + LAIR_ID_OFFSET + LairID("MOUNTAIN_KING")

\* C13 witness: the pool holds an NPC release whose code is not base + kind
\* and a gem instance whose operand is not part of its code.
C13_Witness ==
    /\ Built
    /\ \E k \in InstancesOf("NPC_MOUNTAIN_KING") :
           world.items[k].code # BASE_ID + ItemID("LAIR_RELEASE")
    /\ \E k \in InstancesOf("GEMS") :
           /\ operand(Mem, k) = 12
           /\ world.items[k].code = BASE_ID + ItemID("GEMS")

\* C14: overwriting the operand of an instance is copy-on-write: whatever
\* is called, the records of the tables keep their kind, operand and
\* classification; set_operand changes the operand of the instance it is
\* called on and of no other instance, and an assignment to the operand
\* raises and changes no operand.
C14_SetOperandCopiesOnWrite ==
    [][/\ Items'.templates = ItemsAtImport.templates
       /\ (Built /\ world'.calls = world.calls + 1) =>
            /\ \A k \in 1..Len(world.items) :
                   k # world'.called.self => operand(Mem', k) = operand(Mem, k)
            /\ world'.called.method = "set_operand" =>
                   operand(Mem', world'.called.self) = world'.called.value
            /\ world'.called.method = "operand" =>
                   /\ operand(Mem', world'.called.self) = operand(Mem, world'.called.self)
                   /\ world'.raised = "FrozenInstanceError"]_vars

\* C14 witness: set_operand has given the first gem instance of a vanilla
\* pool the operand 5; the second gem, made from the same table record,
\* still has 12 and the table record still has 100.
C14_Witness ==
    /\ Built
    /\ world.called # None
    /\ world.called.method = "set_operand"
    /\ world.called.self = world.gem_items[1]
    /\ operand(Mem, world.gem_items[1]) = 5
    /\ operand(Mem, world.gem_items[2]) = 12
    /\ Items.templates["GEMS"].operand = 100

\* The rewards that are neither repeatable nor the victory token
UniqueRewards ==
    Range(keys(all_items_table))
    \ {"MEDICALHERB", "STRANGEBOTTLE", "NOTHING", "GEMS", "EXP", "VICTORY"}

\* C15: under every configuration the pool create_itempool returns has
\* unique_count + 20 + 7 + 3 + gem_count + exp_count instances: one for each
\* unique reward, 20 herbs, 7 bottles, 3 nothings and one for each generated
\* gem and exp value.
C15_PoolSize ==
    Built =>
        /\ Len(world.itempool)
             = Cardinality(UniqueRewards) + 20 + 7 + 3
               + Len(world.created.gems) + Len(world.created.exps)
        /\ Cardinality(Range(world.itempool)) = Len(world.itempool)
        /\ UniqueRewards \subseteq {world.items[k].name : k \in Range(world.itempool)}
        /\ Cardinality({k \in Range(world.itempool) : world.items[k].name \in UniqueRewards})
             = Cardinality(UniqueRewards)
        /\ Cardinality(InstancesOf("MEDICALHERB")) = 20
        /\ Cardinality(InstancesOf("STRANGEBOTTLE")) = 7
        /\ Cardinality(InstancesOf("NOTHING")) = 3
        /\ Cardinality(InstancesOf("GEMS")) = Len(world.created.gems)
        /\ Cardinality(InstancesOf("EXP")) = Len(world.created.exps)

\* C15 witness: a pool built under random_range holds 300 instances, 13 of
\* them exp rewards.
C15_Witness ==
    /\ Built
    /\ world.options.gem_exp_pool = "random_range"
    /\ Len(world.itempool) = 300
    /\ Cardinality(InstancesOf("EXP")) = 13

\* C16: under the vanilla configuration the pool holds 21 gem and 13 exp
\* instances whose operands are, in order, the vanilla lists, and the
\* vanilla lists are after the call what they were before.
C16_VanillaPool ==
    (Built /\ world.options.gem_exp_pool = "vanilla") =>
        /\ Len(world.created.gems) = 21
        /\ Len(world.created.exps) = 13
        /\ world.created.gems = gem_values_vanilla
        /\ world.created.exps = exp_values_vanilla
        /\ Items.gem_values_vanilla = gem_values_vanilla
        /\ Items.exp_values_vanilla = exp_values_vanilla

\* C16 witness: a vanilla pool whose second gem instance has operand 12 and
\* whose last exp instance has operand 400.
C16_Witness ==
    /\ Built
    /\ world.options.gem_exp_pool = "vanilla"
    /\ world.calls = 0
    /\ operand(Mem, world.gem_items[2]) = 12
    /\ operand(Mem, world.exp_items[13]) = 400

\* C17: two runs of create_itempool with the same options and the same seed
\* produce the same gem values, the same exp values and the same pool.
C17_SameSeedSamePool ==
    (/\ Built
     /\ previous # None
     /\ previous.options = world.options
     /\ previous.seed = world.seed) =>
        previous.created = world.created

\* C17 witness: two random_range worlds with the same seed were generated
\* one after the other, and the values drawn are not the vanilla ones.
C17_Witness ==
    /\ Built
    /\ previous # None
    /\ world.options.gem_exp_pool = "random_range"
    /\ previous.options = world.options
    /\ previous.seed = world.seed
    /\ world.created.gems # gem_values_vanilla
    /\ previous.created.exps = world.created.exps

\* C18: under every configuration there are as many gem values as vanilla
\* gem values and as many exp values as vanilla exp values; under
\* random_range every gem value is in 1..999 and every exp value in 1..9999;
\* under improved each gem value is twice, each exp value ten times, the
\* vanilla value at its place.
C18_CurrencyValues ==
    Built =>
        LET gems   == world.created.gems
            exps   == world.created.exps
            option == world.options.gem_exp_pool
        IN  /\ Len(gems) = Len(gem_values_vanilla)
            /\ Len(exps) = Len(exp_values_vanilla)
            /\ option = "random_range" =>
                 /\ \A k \in 1..Len(gems) : gems[k] \in 1..999
                 /\ \A k \in 1..Len(exps) : exps[k] \in 1..9999
            /\ option = "improved" =>
                 /\ \A k \in 1..Len(gems) : gems[k] = 2 * gem_values_vanilla[k]
                 /\ \A k \in 1..Len(exps) : exps[k] = 10 * exp_values_vanilla[k]

\* C18 witness: a random_range pool with an exp value above 999.
C18_Witness ==
    /\ Built
    /\ world.options.gem_exp_pool = "random_range"
    /\ \E k \in 1..Len(world.created.exps) : world.created.exps[k] > 999
    /\ \A k \in 1..Len(world.created.gems) : world.created.gems[k] \in 1..999

-----------------------------------------------------------------------------
(* Properties of the table merge *)

\* The merge has run
Merged == merged # None /\ merged.done

\* The names both categories define
Shared == Range(keys(merged.a)) \cap Range(keys(merged.b))

\* Two categories define a name with different records
Conflict ==
    \E name \in Shared : getitem(merged.a, name) # getitem(merged.b, name)

MergeLaterWins ==
    /\ Merged =>
         /\ merged.raised = ""
         /\ Range(keys(merged.result)) = Range(keys(merged.a)) \cup Range(keys(merged.b))
         /\ Len(merged.result) = Len(merged.a) + Len(merged.b) - Cardinality(Shared)
         /\ \A name \in Range(keys(merged.b)) :
                getitem(merged.result, name) = getitem(merged.b, name)
         /\ \A name \in Range(keys(merged.a)) \ Shared :
                getitem(merged.result, name) = getitem(merged.a, name)
    /\ Len(items_table)
         = Len(swords_table) + Len(armors_table) + Len(magic_table)
           + Len(inventory_items_table)
    /\ Len(all_items_table)
         = Len(items_table) + Len(misc_table) + Len(npc_release_table)
           + Len(souls_table) + Len(special_table)

-----------------------------------------------------------------------------
(* Properties of concurrent searches and of predicate construction *)

\* The searches that hold a predicate
Holding == {s \in Searchers : searches[s].fn # None}

\* The evaluator functions Rules.py defines
FlagEvaluators ==
    {"no_requirement", "can_cut_metal", "can_cut_spirit", "has_thunder",
     "has_magic", "has_sword", "has_stones", "has_phoenix_cutscene"}

\* The closures of a predicate, in the order a call enters them
RECURSIVE Closures(_)
Closures(c) ==
    IF c = None THEN <<>> ELSE <<Tag(c)>> \o Closures(c.next_rule)

\* C11: the engine keeps no state between calls: however the closures of
\* the searches interleave, the data the engine keeps is what it was at
\* start, and every call that has returned, each on its own state for its
\* own player, has returned what the predicate returns when it is called
\* alone on that state.
C11_InterleavedAsAlone ==
    /\ memo = <<>>
    /\ \A s \in Holding :
          searches[s].result.done =>
              searches[s].result.val = call(searches[s].fn, searches[s].state).val

\* C11 witness: two searches hold a predicate built from the same chain of
\* two objects; their calls have run interleaved and have returned true to
\* the one and false to the other.
C11_Witness ==
    /\ Holding = Searchers
    /\ searches[1].chain = searches[2].chain
    /\ searches[1].chain.next # None
    /\ searches[1].interleaved /\ searches[2].interleaved
    /\ searches[1].result.done /\ searches[1].result.val
    /\ searches[2].result.done /\ ~searches[2].result.val

\* C20: every RuleFlag variant has one evaluator in rule_for_flag; a chain
\* with a flag that has no evaluator makes get_rule raise KeyError, so that
\* the search holds no predicate, and never a predicate for that chain; a
\* predicate that was built holds, in each of its closures, the evaluator
\* looked up at construction, and no call of it raises.
C20_MissingEvaluatorFailsConstruction ==
    /\ DOMAIN rule_for_flag = RuleFlag
    /\ \A f \in RuleFlag : rule_for_flag[f] \in FlagEvaluators
    /\ \A s \in Searchers :
          LET search == searches[s]
          IN  /\ (search.chain # None /\ HasUnregisteredFlag(search.chain)) =>
                    /\ search.fn = None
                    /\ search.raised = "KeyError"
                    /\ ~search.result.done
              /\ (search.chain # None /\ ~HasUnregisteredFlag(search.chain)) =>
                    /\ search.fn # None
                    /\ search.raised = ""
              /\ search.fn # None =>
                    \A k \in 1..Len(Closures(search.fn)) :
                        LET c == Closures(search.fn)[k]
                        IN  c.cls = "FlagRuleData" =>
                              c.flag_rule = rule_for_flag[ChainSeq(search.chain)[k].flag]

\* C20 witness: one search asked for a chain whose second object has an
\* unregistered flag and got KeyError; the other built its predicate and
\* its call has returned.
C20_Witness ==
    /\ searches[1].chain # None
    /\ searches[1].chain.next # None
    /\ searches[1].chain.flag \in RuleFlag
    /\ searches[1].chain.next.flag = "UNREGISTERED"
    /\ searches[1].raised = "KeyError"
    /\ searches[2].fn # None
    /\ searches[2].result.done

-----------------------------------------------------------------------------
(* Properties of the NONE flag *)

\* A rule object without a requirement of its own: a bare RuleData, or a
\* FlagRuleData whose flag is NONE
IsNoRequirement(node) ==
    \/ node.cls = "RuleData"
    \/ node.cls = "FlagRuleData" /\ node.flag = "NONE"

\* The other way of writing a rule object without a requirement
Counterpart(node) ==
    IF node.cls = "RuleData" THEN FlagRuleData("NONE", None) ELSE RuleData(None)

\* The chain with the object at place k replaced by `node`, which takes the
\* successor of the object it replaces
RECURSIVE ReplaceAt(_, _, _)
ReplaceAt(chain, k, node) ==
    IF k = 1 THEN [node EXCEPT !.next = chain.next]
    ELSE [chain EXCEPT !.next = ReplaceAt(chain.next, k - 1, node)]

\* The state in which no player holds an item or reaches a spot
EmptyState ==
    [state EXCEPT
        !.prog_items          = [p \in multiworld.players |-> [i \in multiworld.itempool |-> 0]],
        !.reachable_locations = [p \in multiworld.players |-> {}],
        !.reachable_regions   = [p \in multiworld.players |-> {}]]

\* C22: FlagRuleData(NONE) and a bare RuleData behave alike at every place
\* of a chain: for the chain of `rule`, each place that holds one of the two
\* and the current state, the predicate of the chain with the other put at
\* that place returns what the predicate of the chain returns; and the
\* predicate of a chain made only of such objects returns true, on the
\* current state and on the state that holds nothing.
C22_NoneFlagIsNoRequirement ==
    rule # None =>
        LET nodes == ChainSeq(rule.chain)
        IN  /\ \A k \in 1..Len(nodes) :
                  IsNoRequirement(nodes[k]) =>
                      LET other == ReplaceAt(rule.chain, k, Counterpart(nodes[k]))
                      IN  /\ call(get_rule(other, rule.player), state).val
                               = call(rule.fn, state).val
                          /\ call(get_rule(other, rule.player), EmptyState).val
                               = call(rule.fn, EmptyState).val
            /\ (\A k \in 1..Len(nodes) : IsNoRequirement(nodes[k])) =>
                  /\ call(rule.fn, state).val
                  /\ call(rule.fn, EmptyState).val

\* C22 witness: the predicate of a chain that begins with FlagRuleData(NONE)
\* and goes on with a requirement has been called on a state that holds an
\* item and has returned true.
C22_Witness ==
    /\ Called
    /\ rule.chain.cls = "FlagRuleData"
    /\ rule.chain.flag = "NONE"
    /\ rule.chain.next # None
    /\ ~IsNoRequirement(rule.chain.next)
    /\ Held(state) >= 1
    /\ last.result

-----------------------------------------------------------------------------
(* Properties of the reachability queries *)

\* The locations whose reachability the rule attached to `name` asks about
DependsOn(name) == ChainLocations(location_dependencies_get(name))

\* A set of locations together with every location their rules ask about
RECURSIVE Reaching(_)
Reaching(names) ==
    LET more == names \cup UNION {DependsOn(n) : n \in names}
    IN  IF more = names THEN names ELSE Reaching(more)

\* The locations the rule of `name` rests on, directly or through other rules
RestsOn(name) == Reaching(DependsOn(name))

\* A rule object that asks only which items the player holds
ItemRequirement(node) ==
    \/ node.cls \in {"HasAnyRuleData", "HasAllRuleData"}
    \/ node.cls = "FlagRuleData" /\ FlagItems(node.flag) # {} /\ FlagSpots(node.flag) = {}

\* Names of the table whose rule asks for a region, or for a location whose
\* own rule rests on the asking name
CyclicNames ==
    {name \in DOMAIN location_dependencies :
       \/ ChainRegions(location_dependencies_get(name)) # {}
       \/ \E spot \in DependsOn(name) : name \in RestsOn(spot)}

\* C21: no rule of the table asks for the reachability of a name whose own
\* rule rests, directly or through other rules, on the asking location:
\* neither as the table is written, nor in the calls a round of the sweep
\* has made; a region's rule is not part of the table, so no rule asks for
\* a region.  The rule of the Mountain King is made of item requirements
\* only and has asked for no reachability.
C21_NoReachabilityCycle ==
    /\ CyclicNames = {}
    /\ \A node \in Range(ChainSeq(location_dependencies_get("MOUNTAIN_KING"))) :
          ItemRequirement(node)
    /\ \A name \in multiworld.locations \cap DOMAIN location_dependencies :
          \A query \in sweep.asked[name] :
             /\ query.kind = "location"
             /\ name \notin RestsOn(query.spot)
    /\ "MOUNTAIN_KING" \in multiworld.locations => sweep.asked["MOUNTAIN_KING"] = {}

\* The Mountain King's rule has been called on a state holding its five
\* items, answered true, and the location has become reachable
C21_Witness ==
    /\ "MOUNTAIN_KING" \in multiworld.locations
    /\ sweep.verdicts["MOUNTAIN_KING"]
    /\ "MOUNTAIN_KING" \in state.reachable_locations[SweepPlayer]
    /\ ~sweep.pending

-----------------------------------------------------------------------------
(* Properties of the sweep *)

\* `after` holds every item and every reachable spot `before` holds
Grows(before, after) ==
    \A p \in multiworld.players :
       /\ \A i \in multiworld.itempool : before.prog_items[p][i] <= after.prog_items[p][i]
       /\ before.reachable_locations[p] \subseteq after.reachable_locations[p]
       /\ before.reachable_regions[p] \subseteq after.reachable_regions[p]

\* The answers of the latest round are those the rules give on the state as
\* it is, and no round is due
SweepFixed ==
    /\ ~sweep.pending
    /\ \A name \in multiworld.locations :
          sweep.verdicts[name] = access_rule(name, state).val

\* C23: over a step in which the state only gains items and reachable
\* spots and the stones threshold stays, every rule of the table that is
\* true before the step is true after it; and a caller that goes round
\* again while an answer changes comes to rest: from some round on no
\* round is due and the recorded answers are those of the rules.
C23_MonotoneAndConverges ==
    /\ [][(Grows(state, state') /\ state'.stones_count = state.stones_count) =>
             \A name \in multiworld.locations :
                access_rule(name, state).val => access_rule(name, state').val]_vars
    /\ <>[]SweepFixed

\* C23 witness: the rule of POWER_PLANT_CRYSTAL answered true in a round,
\* the location became reachable and the state has grown since that round
\* (a round is due again); both swords that cut metal are held, and the
\* rule is true on the grown state.
C23_Witness ==
    /\ "POWER_PLANT_CRYSTAL" \in multiworld.locations
    /\ sweep.verdicts["POWER_PLANT_CRYSTAL"]
    /\ "POWER_PLANT_CRYSTAL" \in state.reachable_locations[SweepPlayer]
    /\ sweep.pending
    /\ has_all(state, metal_items, SweepPlayer)
    /\ access_rule("POWER_PLANT_CRYSTAL", state).val

=============================================================================
